---------------------------- MODULE Spec2Model ----------------------------
(***************************************************************************)
(* Campus-crime statistics site: the browsing client (Rankings,            *)
(* SchoolProfile and Compare pages with lib/utils helpers) and the         *)
(* enrollment normalizer of the ETL pipeline.                              *)
(*                                                                         *)
(* Numbers.  JavaScript numbers are modelled by integers:                  *)
(*   - a nullable number is the integer NULL when it is null;              *)
(*   - a rate stored in a ranking artifact is held in hundredths;          *)
(*   - a rate computed by a page is held as the exact fraction             *)
(*     [num, den] = count * 10000 / fte, and toFixed(1) rounds it;         *)
(*   - an FTE computed by the pipeline is held in millionths, so that      *)
(*     the six-digit conversion factors are exact.                         *)
(***************************************************************************)
EXTENDS Integers, Sequences, FiniteSets, TLC

VARIABLES
    page,            \* the mounted route ("rankings", "profile", "compare"), or the
                     \* part that runs on its own ("etl", "utils", "pipeline")
    \* ---- Rankings page (pages/Rankings.tsx)
    rankings,        \* RankingEntry[] of the selected offense
    totals,          \* Record<offenseCode, number>; NULL where the key is missing
    rkOffense,       \* selectedOffense (URL parameter)
    loading,         \* rankings fetch in flight
    sortByRate,      \* Total / Rate toggle
    displayCount,    \* Load More window
    \* ---- SchoolProfile page (pages/SchoolProfile.tsx)
    profile,         \* SchoolProfile artifact, or NoProfile
    selectedYear,    \* number | null
    selectedOffense, \* 'all' or an offense name
    showRate,        \* Total / Rate toggle
    \* ---- Compare page (pages/Compare.tsx)
    cmpProfiles,     \* SchoolProfile[] (at most 2)
    cmpYear,         \* 'all' (AllYears) or a year
    cmpOffense,      \* 'all' or an offense name
    cmpShowRate,     \* Total / Rate toggle
    \* ---- ETL enrollment normalizer
    enrollment,      \* the raw enrollment extract of one (institution, year)
    resolved,        \* the resolved FTE values written for that pair
    \* ---- lib/utils.ts called on its own
    call,            \* the last call of a utility: its arguments and result
    \* ---- ETL pipeline run
    run,             \* "idle", "running", "aborted" or "done"
    gen,             \* number of the generation the current run produces
    stageStatus,     \* per stage: "pending", "running", "complete" or "failed"
    fresh,           \* the files written so far to the run's fresh location
    report,          \* the failed checks the Audit Validator recorded
    published,       \* the files of the published output directory
    startPublished,  \* the published directory as it was when the run started
    \* ---- lib/api.ts school profile cache
    schoolCache,     \* Map<unitid, SchoolProfile>; NoProfile where there is no entry
    schoolPending,   \* the fetches of schools/{unitid}.json in flight, with their caller
    schoolReturned,  \* what fetchSchoolProfile last resolved with, as it was then
    \* ---- hooks/useTheme.ts
    hooks,           \* per hook instance: NoHook, or its theme and resolvedTheme
    stored,          \* localStorage['theme'], or NoItem
    rootDark,        \* document.documentElement has the class 'dark'
    systemDark,      \* matchMedia('(prefers-color-scheme: dark)').matches
    lastSet,         \* the value the theme was last set to, or NoItem
    endedWith,       \* the theme the App's hook had when the document was left
    startedWith,     \* the theme the App's hook started with in this document
    reloads,         \* number of reloads so far
    \* ---- Rankings page: the load effect and lib/api.ts fetchRankings
    rkPreset,        \* selectedPreset (URL parameter)
    rkYear,          \* selectedYear (URL parameter)
    rkPending,       \* the fetchRankings calls in flight, with the selection of
                     \* the effect run that made them
    rankingsCache,   \* the keys of rankingsCache
    \* ---- Rankings page: the comparison list
    compareSchools,  \* the unitids of the schools chosen for comparison, oldest first
    lastToggle,      \* the last toggleCompare call: its unitid and the list before it
    \* ---- components/SchoolSearch.tsx with lib/api.ts fetchSchoolIndex
    srch,            \* per SchoolSearch instance: NoSearch, or its state (isOpen,
                     \* schools.length, loading) and its fetchSchoolIndex call in flight
    schoolIndexCache, \* NoIndex, or the number of schools of the cached index
    indexRequests,   \* number of requests for school-index.json so far
    srchActions,     \* number of user actions (mount, open) so far
    \* ---- Compare page: the selection and the URL
    selectedIds,     \* selectedIds
    urlSchools,      \* the 'schools' parameter of the URL: present or not, and its
                     \* value as the list of its comma-separated tokens
    urlDirty,        \* what changed in the last render: "ids" (selectedIds),
                     \* "search" (searchParams)
    urlExpected,     \* the selection by the opening URL and the add/remove calls
    urlOps,          \* number of add/remove calls so far
    \* ---- lib/api.ts: the cached fetch operations
    apiCache,        \* per key: the cached object, NoObject where nothing is cached
    apiPending,      \* per key: number of requests in flight
    apiRequests,     \* per key: number of requests since the last clearCache
    apiFailures,     \* per key: number of failed requests since the last clearCache
    apiCompleted,    \* per key: the object of the first call completed since the
                     \* last clearCache, NoObject before
    apiNext,         \* the object the next successful response is parsed into
    apiLast,         \* the last call or completion: its key, kind and object
    apiClears        \* number of clearCache calls so far

vars == << page, rankings, totals, rkOffense, loading, sortByRate, displayCount,
           profile, selectedYear, selectedOffense, showRate,
           cmpProfiles, cmpYear, cmpOffense, cmpShowRate,
           enrollment, resolved, call,
           run, gen, stageStatus, fresh, report, published, startPublished,
           schoolCache, schoolPending, schoolReturned,
           hooks, stored, rootDark, systemDark, lastSet, endedWith, startedWith,
           reloads, rkPreset, rkYear, rkPending, rankingsCache,
           compareSchools, lastToggle,
           srch, schoolIndexCache, indexRequests, srchActions,
           selectedIds, urlSchools, urlDirty, urlExpected, urlOps,
           apiCache, apiPending, apiRequests, apiFailures, apiCompleted, apiNext, apiLast, apiClears >>

rankingsVars == << rankings, totals, rkOffense, loading, sortByRate, displayCount >>
profileVars  == << profile, selectedYear, selectedOffense, showRate >>
compareVars  == << cmpProfiles, cmpYear, cmpOffense, cmpShowRate >>
etlVars      == << enrollment, resolved >>
utilVars     == << call >>
pipeVars     == << run, gen, stageStatus, fresh, report, published, startPublished >>
cacheVars    == << schoolCache, schoolPending, schoolReturned >>
themeVars    == << hooks, stored, rootDark, systemDark, lastSet, endedWith,
                   startedWith, reloads >>
loadVars     == << rkPreset, rkYear, rkPending, rankingsCache >>
toggleVars == << compareSchools, lastToggle >>
searchVars == << srch, schoolIndexCache, indexRequests, srchActions >>
urlVars  == << selectedIds, urlSchools, urlDirty, urlExpected, urlOps >>
apiVars  == << apiCache, apiPending, apiRequests, apiFailures, apiCompleted, apiNext, apiLast, apiClears >>
clientVars   == << page, rankingsVars, profileVars, compareVars >>
\* everything outside the three pages, the normalizer and lib/utils
otherVars    == << pipeVars, cacheVars, themeVars, loadVars, toggleVars, searchVars, urlVars, apiVars >>
\* everything but the pipeline run, but the cache, but the theme
outsidePipeline == << clientVars, etlVars, utilVars, cacheVars, themeVars, loadVars, toggleVars, searchVars, urlVars, apiVars >>
outsideCache    == << clientVars, etlVars, utilVars, pipeVars, themeVars, loadVars, toggleVars, searchVars, urlVars, apiVars >>
outsideTheme    == << clientVars, etlVars, utilVars, pipeVars, cacheVars, loadVars, toggleVars, searchVars, urlVars, apiVars >>
outsideLoad     == << profileVars, compareVars, etlVars, utilVars, pipeVars, cacheVars,
                      themeVars, toggleVars, searchVars, urlVars, apiVars >>
outsideApi == << clientVars, etlVars, utilVars, pipeVars, cacheVars, themeVars, loadVars, toggleVars, searchVars, urlVars >>
outsideUrl == << clientVars, etlVars, utilVars, pipeVars, cacheVars, themeVars, loadVars, toggleVars, searchVars, apiVars >>
outsideSearch == << clientVars, etlVars, utilVars, pipeVars, cacheVars, themeVars, loadVars, toggleVars, urlVars, apiVars >>
outsideToggle == << clientVars, etlVars, utilVars, pipeVars, cacheVars, themeVars, loadVars, searchVars, urlVars, apiVars >>

-----------------------------------------------------------------------------
(* Values *)

\* null of a `number | null` field
NULL == -1

\* the 'all' offense / year selector
All == "all"

Min(a, b) == IF a < b THEN a ELSE b

\* the years of an array of { year, ... } records
YearsOf(s) == { s[i].year : i \in DOMAIN s }

\* Array.prototype.find: the first element whose index satisfies Hit, or `none`
\* (undefined) when there is no such element
FirstAt(s, hits, none) ==
    IF hits = {} THEN none
    ELSE s[CHOOSE i \in hits : \A j \in hits : i <= j]

-----------------------------------------------------------------------------
(* lib/utils.ts *)

\* isSmallSample that looks at the incident count only
isSmallSample_CountOnly(fte, incidents) == incidents < 10

\* isSmallSample with the FTE threshold taken inclusively (fte <= 1000)
isSmallSample_Inclusive(fte, incidents) ==
    (fte # NULL /\ fte <= 1000) \/ incidents < 10

\* isSmallSample(fte, incidents)
isSmallSample(fte, incidents) ==
    (fte # NULL /\ fte < 1000) \/ incidents < 10

\* percent === null
NoPercent == [num |-> 0, den |-> 0]

\* calculateYoYChange(current, previous); percent is the exact fraction
\* ((current - previous) / previous) * 100
calculateYoYChange(current, previous) ==
    [ absolute |-> current - previous,
      percent |-> IF previous # 0
                  THEN [num |-> (current - previous) * 100, den |-> previous]
                  ELSE NoPercent ]

\* no year-over-year change (null)
NoYoY == [none |-> TRUE]

\* Number.prototype.toFixed(1) of a rate held in hundredths: the result in
\* tenths, the nearer tenth, the larger one on a tie
ToFixed1(hundredths) == (hundredths + 5) \div 10

\* toFixed(1) that cuts the digits off instead of rounding
ToFixed1Frac_Truncated(q) == (10 * q.num) \div q.den

\* Number.prototype.toFixed(1) of the fraction q.num / q.den (q.den > 0), in
\* tenths
ToFixed1Frac(q) == (2 * 10 * q.num + q.den) \div (2 * q.den)

-----------------------------------------------------------------------------
(* Published ranking artifacts (rankings/{preset}-{year}-all.json).        *)
(* The pipeline that writes them is not part of the client; the lists      *)
(* below follow the contract of the artifact: entries in descending count  *)
(* order, ties by ascending unitid, rank = position.                       *)

Unitids == { 1, 2, 3 }

OffenseCodes == { All, "burglary" }

\* rate of an artifact entry, in hundredths: (count / fte) * 10000
ArtifactRate(count, fte) == (count * 10000 * 100) \div fte

\* (count, fte, rate) of the institutions the fixtures are built from
RankingRows ==
    { [count |-> 50, fte |-> 5000, rate |-> ArtifactRate(50, 5000)],
      [count |-> 3,  fte |-> 1500, rate |-> ArtifactRate(3, 1500)],
      [count |-> 50, fte |-> 800,  rate |-> ArtifactRate(50, 800)],
      [count |-> 20, fte |-> 1000, rate |-> ArtifactRate(20, 1000)],
      [count |-> 20, fte |-> 999,  rate |-> ArtifactRate(20, 999)],
      [count |-> 50, fte |-> NULL, rate |-> NULL],
      [count |-> 3,  fte |-> 800,  rate |-> ArtifactRate(3, 800)] }

\* position of institution u among the institutions S: count descending, then
\* unitid ascending
RankOf(u, S, row) ==
    1 + Cardinality({ v \in S : \/ row[v].count > row[u].count
                                \/ (row[v].count = row[u].count /\ v < u) })

\* the ranking list of the institutions S
BuildRanking(S, row) ==
    [ i \in 1..Cardinality(S) |->
        LET u == CHOOSE v \in S : RankOf(v, S, row) = i
        IN  [rank |-> i, unitid |-> u, count |-> row[u].count,
             fte |-> row[u].fte, rate |-> row[u].rate] ]

RankingLists ==
    { BuildRanking(S, row) : S \in SUBSET Unitids, row \in [Unitids -> RankingRows] }

RECURSIVE SumCounts(_)
SumCounts(s) == IF s = << >> THEN 0 ELSE Head(s).count + SumCounts(Tail(s))

\* A RankingsData artifact: the 'all' list, and the same list under
\* 'burglary' when the artifact has that key at all.
RankingsData ==
    { [list |-> l, keys |-> k] :
        l \in RankingLists, k \in { { All }, OffenseCodes } }

\* data.rankings[offense] || []
DataRankings(data, offense) == IF offense \in data.keys THEN data.list ELSE << >>

\* data.totals
DataTotals(data) ==
    [ o \in OffenseCodes |-> IF o \in data.keys THEN SumCounts(data.list) ELSE NULL ]

-----------------------------------------------------------------------------
(* pages/Rankings.tsx *)

\* Load More page size.  The page shows 25 rows and adds 25 per click; the
\* model keeps the same mechanism with a window of 2 so that lists of three
\* entries exercise it.
LOAD_MORE_INCREMENT == 2

MIN_FTE_FOR_RATE == 1000

\* (b.rate ?? 0)
RateOrZero(e) == IF e.rate = NULL THEN 0 ELSE e.rate

RECURSIVE InsertByRate(_, _)
\* place e behind every element whose rate is not smaller (stable)
InsertByRate(e, s) ==
    IF s = << >> THEN << e >>
    ELSE IF RateOrZero(Head(s)) >= RateOrZero(e)
         THEN << Head(s) >> \o InsertByRate(e, Tail(s))
         ELSE << e >> \o s

RECURSIVE SortByRateDesc(_)
\* Array.prototype.sort((a, b) => (b.rate ?? 0) - (a.rate ?? 0)), a stable sort
SortByRateDesc(s) ==
    IF s = << >> THEN << >>
    ELSE InsertByRate(s[Len(s)], SortByRateDesc(SubSeq(s, 1, Len(s) - 1)))

\* the rate-view filter without its FTE threshold
QualifiedForRate_NoThreshold(r) == r.rate # NULL

\* the filter predicate of sortedRankings
QualifiedForRate(r) ==
    r.fte # NULL /\ r.fte >= MIN_FTE_FOR_RATE /\ r.rate # NULL

\* sortedRankings
sortedRankings ==
    IF ~sortByRate THEN rankings
    ELSE SortByRateDesc(SelectSeq(rankings, QualifiedForRate))

\* displayedRankings
displayedRankings ==
    SubSeq(sortedRankings, 1, Min(displayCount, Len(sortedRankings)))

\* hasRateData
hasRateData == \E i \in DOMAIN rankings : rankings[i].rate # NULL

\* hasMoreToLoad
hasMoreToLoad == displayCount < Len(sortedRankings)

\* currentTotal
currentTotal == IF totals[rkOffense] = NULL THEN 0 ELSE totals[rkOffense]

\* the list (table / cards) is rendered
RankingsShown == page = "rankings" /\ ~loading /\ rankings # << >>

\* a rank cell that shows the pre-computed rank in both views
DisplayRank_Precomputed(i) == displayedRankings[i].rank

\* the rank number shown for row i of the displayed list (rank cell and
\* mobile rank badge)
DisplayRank(i) ==
    IF sortByRate THEN i ELSE displayedRankings[i].rank

\* the rate cell of row i: the text shown, in tenths, with the asterisk
RateCell(i) ==
    LET e == displayedRankings[i]
    IN  IF e.rate # NULL
        THEN [text |-> "rate", tenths |-> ToFixed1(e.rate),
              star |-> isSmallSample(e.fte, e.count)]
        ELSE [text |-> "dash", tenths |-> NULL, star |-> FALSE]

\* the Enrollment cell of row i of the table
FteCell(i) ==
    LET e == displayedRankings[i]
    IN  IF e.fte # NULL
        THEN [text |-> "number", value |-> e.fte]
        ELSE [text |-> "dash", value |-> NULL]

\* the FTE part of card i of the mobile list: {item.fte && ...}
FteBadge(i) ==
    LET e == displayedRankings[i]
    IN  IF e.fte = NULL THEN [text |-> "nothing", value |-> NULL]
        ELSE IF e.fte = 0 THEN [text |-> "number", value |-> 0]
        ELSE [text |-> "number", value |-> e.fte]

RankingsInitial ==
    /\ rankings = << >>
    /\ totals = [ o \in OffenseCodes |-> NULL ]
    /\ rkOffense = All
    /\ loading = TRUE
    /\ sortByRate = FALSE
    /\ displayCount = LOAD_MORE_INCREMENT

\* the useState initial values of a Rankings page mounted on `offense`
MountRankings(offense) ==
    /\ rankings' = << >>
    /\ totals' = [ o \in OffenseCodes |-> NULL ]
    /\ rkOffense' = offense
    /\ loading' = TRUE
    /\ sortByRate' = FALSE
    /\ displayCount' = LOAD_MORE_INCREMENT

\* navigation to "/", with the offense the URL names
OpenRankings(offense) ==
    /\ page \in { "rankings", "profile", "compare" }
    /\ page' = "rankings"
    /\ MountRankings(offense)

\* updateFilters and the effect it triggers
UpdateFilters(offense) ==
    /\ page = "rankings"
    /\ rkOffense' = offense
    /\ loading' = TRUE
    /\ displayCount' = LOAD_MORE_INCREMENT
    /\ UNCHANGED << page, rankings, totals, sortByRate >>

\* fetchRankings(...).then(...)
RankingsLoaded(data) ==
    /\ page = "rankings"
    /\ loading
    /\ rankings' = DataRankings(data, rkOffense)
    /\ totals' = DataTotals(data)
    /\ loading' = FALSE
    /\ UNCHANGED << page, rkOffense, sortByRate, displayCount >>

\* the Total / Rate buttons, rendered when hasRateData
SetSortByRate(b) ==
    /\ page = "rankings"
    /\ hasRateData
    /\ sortByRate' = b
    /\ UNCHANGED << page, rankings, totals, rkOffense, loading, displayCount >>

\* loadMore
LoadMore ==
    /\ RankingsShown
    /\ hasMoreToLoad
    /\ displayCount' = displayCount + LOAD_MORE_INCREMENT
    /\ UNCHANGED << page, rankings, totals, rkOffense, loading, sortByRate >>

-----------------------------------------------------------------------------
(* Published school artifacts (schools/{unitid}.json) *)

Years == { 2022, 2023 }

\* summary.latestYear
LatestYear == CHOOSE y \in Years : \A z \in Years : z <= y

Offenses == { "Burglary" }

\* profile === null
NoProfile == [none |-> TRUE]

\* yearlyTotals with the given total per year, NULL for a year without record
YearlyTotals(t22, t23) ==
    (IF t22 = NULL THEN << >> ELSE << [year |-> 2022, total |-> t22] >>)
    \o (IF t23 = NULL THEN << >> ELSE << [year |-> 2023, total |-> t23] >>)

\* trends of the one offense, NULL for a year without record
Trends(b22, b23) ==
    (IF b22 = NULL THEN << >>
     ELSE << [year |-> 2022, offense |-> "Burglary", count |-> b22] >>)
    \o (IF b23 = NULL THEN << >>
        ELSE << [year |-> 2023, offense |-> "Burglary", count |-> b23] >>)

\* breakdownByGeo, with the residence-hall slice when res # NULL
GeoBreakdown(on, res, non, pub) ==
    << [geo |-> "On-campus", count |-> on] >>
    \o (IF res = NULL THEN << >>
        ELSE << [geo |-> "Residence halls", count |-> res] >>)
    \o << [geo |-> "Non-campus", count |-> non],
          [geo |-> "Public property", count |-> pub] >>

\* (fte, fteByYear): the latest FTE and the FTE per year, NULL for a year
\* without an entry
FteFixtures ==
    { [fte |-> NULL, by |-> [y \in Years |-> NULL]],
      [fte |-> 800,  by |-> [y \in Years |-> IF y = 2023 THEN 800 ELSE NULL]],
      [fte |-> 5000, by |-> [y \in Years |-> IF y = 2023 THEN 5000 ELSE NULL]],
      [fte |-> 5000, by |-> [y \in Years |-> IF y = 2023 THEN 5000 ELSE 1500]],
      [fte |-> 1500, by |-> [y \in Years |-> IF y = 2023 THEN 1500 ELSE 900]] }

MakeProfile(f, t22, t23, b22, b23, geo) ==
    [ fte |-> f.fte, fteByYear |-> f.by, latestYear |-> LatestYear,
      yearlyTotals |-> YearlyTotals(t22, t23), trends |-> Trends(b22, b23),
      breakdownByGeo |-> geo ]

\* profiles that vary counts and enrollment
RateProfiles ==
    { MakeProfile(f, t22, t23, b22, b23, GeoBreakdown(2, NULL, 1, 0)) :
        f \in FteFixtures, t22 \in { NULL, 0, 50 }, t23 \in { NULL, 3, 50 },
        b22 \in { NULL, 3 }, b23 \in { NULL, 3 } }

\* profiles that vary the location breakdown
GeoProfiles ==
    { MakeProfile([fte |-> 5000, by |-> [y \in Years |-> 5000]], 50, 50, 3, 3,
                  GeoBreakdown(on, res, 2, 1)) :
        on \in { 0, 10 }, res \in { NULL, 0, 4 } }

ProfileArtifacts == RateProfiles \cup GeoProfiles

-----------------------------------------------------------------------------
(* pages/SchoolProfile.tsx *)

\* JavaScript truthiness of a number | null
Truthy(n) == n # NULL /\ n # 0

\* profile.yearlyTotals.find(yt => yt.year === y); NULL total when undefined
YearTotalOf(p, y) ==
    FirstAt(p.yearlyTotals,
            { i \in DOMAIN p.yearlyTotals : p.yearlyTotals[i].year = y },
            [year |-> y, total |-> NULL]).total

\* profile.trends.find(t => t.year === y && t.offense === o); NULL count when
\* undefined
TrendCountOf(p, y, o) ==
    FirstAt(p.trends,
            { i \in DOMAIN p.trends :
                p.trends[i].year = y /\ p.trends[i].offense = o },
            [year |-> y, offense |-> o, count |-> NULL]).count

\* availableYears
availableYears ==
    IF profile = NoProfile THEN {} ELSE YearsOf(profile.yearlyTotals)

\* availableOffenses
availableOffenses ==
    IF profile = NoProfile THEN {}
    ELSE { profile.trends[i].offense : i \in DOMAIN profile.trends }

\* x || 0
OrZero(x) == IF Truthy(x) THEN x ELSE 0

\* selectedYearTotal
selectedYearTotal ==
    IF profile = NoProfile \/ ~Truthy(selectedYear) THEN 0
    ELSE IF selectedOffense = All
         THEN OrZero(YearTotalOf(profile, selectedYear))
         ELSE OrZero(TrendCountOf(profile, selectedYear, selectedOffense))

\* selectedYearFte
selectedYearFte ==
    IF profile = NoProfile \/ ~Truthy(selectedYear) THEN NULL
    ELSE IF Truthy(profile.fteByYear[selectedYear])
         THEN profile.fteByYear[selectedYear]
         ELSE profile.fte

\* the fraction (total / fte) * 10000
RateFrac(total, fte) == [num |-> total * 10000, den |-> fte]

\* no rate
NoRate == [num |-> NULL, den |-> NULL]

\* selectedYearRate with the ranking threshold applied to the profile too
selectedYearRate_Thresholded ==
    IF ~Truthy(selectedYearFte) \/ selectedYearFte < 1000 THEN NoRate
    ELSE RateFrac(selectedYearTotal, selectedYearFte)

\* selectedYearRate
selectedYearRate ==
    IF ~Truthy(selectedYearFte) \/ selectedYearFte <= 0 THEN NoRate
    ELSE RateFrac(selectedYearTotal, selectedYearFte)

\* a year-over-year change taken from the records where they exist and from
\* 0 where they do not
selectedYearYoYChange_Defaulted ==
    IF profile = NoProfile \/ ~Truthy(selectedYear) THEN NoYoY
    ELSE IF selectedOffense = All
         THEN calculateYoYChange(OrZero(YearTotalOf(profile, selectedYear)),
                                 OrZero(YearTotalOf(profile, selectedYear - 1)))
         ELSE calculateYoYChange(
                  OrZero(TrendCountOf(profile, selectedYear, selectedOffense)),
                  OrZero(TrendCountOf(profile, selectedYear - 1, selectedOffense)))

\* selectedYearYoYChange
selectedYearYoYChange ==
    IF profile = NoProfile \/ ~Truthy(selectedYear) THEN NoYoY
    ELSE IF selectedOffense = All
         THEN IF \/ YearTotalOf(profile, selectedYear) = NULL
                 \/ YearTotalOf(profile, selectedYear - 1) = NULL
              THEN NoYoY
              ELSE calculateYoYChange(YearTotalOf(profile, selectedYear),
                                      YearTotalOf(profile, selectedYear - 1))
         ELSE IF \/ TrendCountOf(profile, selectedYear, selectedOffense) = NULL
                 \/ TrendCountOf(profile, selectedYear - 1, selectedOffense) = NULL
              THEN NoYoY
              ELSE calculateYoYChange(
                       TrendCountOf(profile, selectedYear, selectedOffense),
                       TrendCountOf(profile, selectedYear - 1, selectedOffense))

\* the change line under the first summary card
YoYLine ==
    IF ~showRate /\ selectedYearYoYChange # NoYoY
    THEN [text |-> "change", value |-> selectedYearYoYChange.absolute]
    ELSE [text |-> "nothing", value |-> NULL]

\* the page body is rendered (not the spinner, not the error box)
ProfileShown == page = "profile" /\ profile # NoProfile

\* the first summary card: what it shows
RateCard ==
    IF showRate
    THEN IF selectedYearRate # NoRate
         THEN [text |-> "rate", value |-> ToFixed1Frac(selectedYearRate),
               star |-> isSmallSample(selectedYearFte, selectedYearTotal)]
         ELSE [text |-> "N/A", value |-> NULL, star |-> FALSE]
    ELSE [text |-> "count", value |-> selectedYearTotal, star |-> FALSE]

\* the enrollment in the page header: {profile.fte && ... students}
FteHeader ==
    IF profile.fte = NULL THEN [text |-> "nothing", value |-> NULL]
    ELSE IF profile.fte = 0 THEN [text |-> "number", value |-> 0]
    ELSE [text |-> "students", value |-> profile.fte]

\* the line under the rate: {showRate && selectedYearFte && Based on ... FTE}
BasedOnFte ==
    IF ~showRate \/ selectedYearFte = NULL THEN [text |-> "nothing", value |-> NULL]
    ELSE IF selectedYearFte = 0 THEN [text |-> "number", value |-> 0]
    ELSE [text |-> "based on", value |-> selectedYearFte]

RECURSIVE SumGeo(_)
SumGeo(s) == IF s = << >> THEN 0 ELSE Head(s).count + SumGeo(Tail(s))

\* the total the By Location legend takes its percentages of
GeoLegendTotal == SumGeo(profile.breakdownByGeo)

\* count of one slice of the location breakdown, 0 when the slice is missing
GeoCount(p, g) ==
    FirstAt(p.breakdownByGeo,
            { i \in DOMAIN p.breakdownByGeo : p.breakdownByGeo[i].geo = g },
            [geo |-> g, count |-> 0]).count

ProfileInitial ==
    /\ profile = NoProfile
    /\ selectedYear = NULL
    /\ selectedOffense = All
    /\ showRate = FALSE

\* the useState initial values of a SchoolProfile page
MountProfile ==
    /\ profile' = NoProfile
    /\ selectedYear' = NULL
    /\ selectedOffense' = All
    /\ showRate' = FALSE

\* navigation to /school/:unitid
OpenProfile ==
    /\ page \in { "rankings", "profile", "compare" }
    /\ page' = "profile"
    /\ MountProfile

\* fetchSchoolProfile(...).then(...)
ProfileLoaded(data) ==
    /\ page = "profile"
    /\ profile = NoProfile
    /\ profile' = data
    /\ selectedYear' = data.latestYear
    /\ UNCHANGED << page, selectedOffense, showRate >>

\* the year <select>
SelectYear(y) ==
    /\ ProfileShown
    /\ y \in availableYears
    /\ selectedYear' = y
    /\ UNCHANGED << page, profile, selectedOffense, showRate >>

\* the offense <select>, Clear filter, and the offense bars
SelectOffense(o) ==
    /\ ProfileShown
    /\ o \in { All } \cup availableOffenses
    /\ selectedOffense' = o
    /\ UNCHANGED << page, profile, selectedYear, showRate >>

\* the Total / Rate buttons; Rate is disabled when !selectedYearFte
SetShowRate(b) ==
    /\ ProfileShown
    /\ b => Truthy(selectedYearFte)
    /\ showRate' = b
    /\ UNCHANGED << page, profile, selectedYear, selectedOffense >>

-----------------------------------------------------------------------------
(* pages/Compare.tsx *)

\* the values of the year <select>: 'all' or year.toString()
YearString(y) == IF y = 2022 THEN "2022" ELSE "2023"

\* parseInt(selectedYear)
ParseInt(str) == IF str = "2022" THEN 2022 ELSE 2023

\* the profile every modelled comparison has on one side
CompareFixtures ==
    { MakeProfile([fte |-> 5000, by |-> [y \in Years |-> 5000]], 50, 50, 3, 3,
                  GeoBreakdown(2, NULL, 1, 0)),
      MakeProfile([fte |-> 800, by |-> [y \in Years |-> NULL]], NULL, 3, NULL, NULL,
                  GeoBreakdown(2, NULL, 1, 0)) }

\* the loaded comparisons: two profiles, one of them a fixture
ComparePairs ==
    { << a, b >> : a \in RateProfiles, b \in CompareFixtures }
    \cup { << b, a >> : a \in RateProfiles, b \in CompareFixtures }

RECURSIVE SumTotals(_)
SumTotals(s) == IF s = << >> THEN 0 ELSE Head(s).total + SumTotals(Tail(s))

\* the trends of one offense
OffenseTrends(p, o) == SelectSeq(p.trends, LAMBDA t : t.offense = o)

\* filteredMetrics: totalIncidents of one profile (NULL is null)
TotalIncidents(p, year, offense) ==
    IF year = All /\ offense = All THEN SumTotals(p.yearlyTotals)
    ELSE IF year # All /\ offense = All THEN YearTotalOf(p, ParseInt(year))
    ELSE IF year = All /\ offense # All
         THEN IF Len(OffenseTrends(p, offense)) > 0
              THEN SumCounts(OffenseTrends(p, offense))
              ELSE NULL
    ELSE TrendCountOf(p, ParseInt(year), offense)

\* filteredMetrics: rate of one profile
MetricsRate(p, year, offense) ==
    IF /\ year # All
       /\ Truthy(p.fte)
       /\ p.fte > 0
       /\ TotalIncidents(p, year, offense) # NULL
    THEN RateFrac(TotalIncidents(p, year, offense), p.fte)
    ELSE NoRate

\* filteredMetrics: yoyChange of one profile
MetricsYoY(p, year, offense) ==
    IF year = All THEN NoYoY
    ELSE IF offense = All
         THEN IF \/ YearTotalOf(p, ParseInt(year)) = NULL
                 \/ YearTotalOf(p, ParseInt(year) - 1) = NULL
              THEN NoYoY
              ELSE calculateYoYChange(YearTotalOf(p, ParseInt(year)),
                                      YearTotalOf(p, ParseInt(year) - 1))
         ELSE IF \/ TrendCountOf(p, ParseInt(year), offense) = NULL
                 \/ TrendCountOf(p, ParseInt(year) - 1, offense) = NULL
              THEN NoYoY
              ELSE calculateYoYChange(TrendCountOf(p, ParseInt(year), offense),
                                      TrendCountOf(p, ParseInt(year) - 1, offense))

\* filteredMetrics
filteredMetrics(i) ==
    [ totalIncidents |-> TotalIncidents(cmpProfiles[i], cmpYear, cmpOffense),
      fte |-> cmpProfiles[i].fte,
      rate |-> MetricsRate(cmpProfiles[i], cmpYear, cmpOffense),
      yoyChange |-> MetricsYoY(cmpProfiles[i], cmpYear, cmpOffense) ]

\* the comparison content is rendered
CompareShown == page = "compare" /\ Len(cmpProfiles) = 2

\* totalIncidents ?? 0
NullishZero(x) == IF x = NULL THEN 0 ELSE x

\* a metrics cell that shows an absent rate as 0.0
MetricsCell_NullAsZero(i) ==
    LET m == filteredMetrics(i)
    IN  IF cmpShowRate
        THEN [text |-> "rate",
              value |-> IF m.rate # NoRate THEN ToFixed1Frac(m.rate) ELSE 0,
              star |-> isSmallSample(cmpProfiles[i].fte,
                                     NullishZero(m.totalIncidents))]
        ELSE IF m.totalIncidents # NULL
             THEN [text |-> "count", value |-> m.totalIncidents, star |-> FALSE]
             ELSE [text |-> "N/A", value |-> NULL, star |-> FALSE]

\* the "Total Incidents / Rate" cell of profile i in the Key Metrics table
MetricsCell(i) ==
    LET m == filteredMetrics(i)
    IN  IF cmpShowRate
        THEN IF m.rate # NoRate
             THEN [text |-> "rate", value |-> ToFixed1Frac(m.rate),
                   star |-> isSmallSample(cmpProfiles[i].fte,
                                          NullishZero(m.totalIncidents))]
             ELSE [text |-> "N/A", value |-> NULL, star |-> FALSE]
        ELSE IF m.totalIncidents # NULL
             THEN [text |-> "count", value |-> m.totalIncidents, star |-> FALSE]
             ELSE [text |-> "N/A", value |-> NULL, star |-> FALSE]

\* the "Year-over-Year Change" cell of profile i in the Key Metrics table
YoYCell(i) ==
    LET yoy == filteredMetrics(i).yoyChange
    IN  IF yoy # NoYoY
        THEN [text |-> "change", value |-> yoy.absolute]
        ELSE [text |-> "N/A", value |-> NULL]

\* the enrollment under the name of profile i: {profile.fte && ... students}
CmpFteLine(i) ==
    IF cmpProfiles[i].fte = NULL THEN [text |-> "nothing", value |-> NULL]
    ELSE IF cmpProfiles[i].fte = 0 THEN [text |-> "number", value |-> 0]
    ELSE [text |-> "students", value |-> cmpProfiles[i].fte]

\* availableYears of the Compare page
cmpAvailableYears ==
    UNION { YearsOf(cmpProfiles[i].yearlyTotals) : i \in DOMAIN cmpProfiles }

\* availableOffenses of the Compare page
cmpAvailableOffenses ==
    UNION { { cmpProfiles[i].trends[k].offense : k \in DOMAIN cmpProfiles[i].trends } :
            i \in DOMAIN cmpProfiles }

CompareInitial ==
    /\ cmpProfiles = << >>
    /\ cmpYear = All
    /\ cmpOffense = All
    /\ cmpShowRate = FALSE

\* the useState initial values of a Compare page
MountCompare ==
    /\ cmpProfiles' = << >>
    /\ cmpYear' = All
    /\ cmpOffense' = All
    /\ cmpShowRate' = FALSE

\* navigation to /compare
OpenCompare ==
    /\ page \in { "rankings", "profile", "compare" }
    /\ page' = "compare"
    /\ MountCompare

\* Promise.all(selectedIds.map(fetchSchoolProfile)).then(setProfiles)
CompareLoaded(ps) ==
    /\ page = "compare"
    /\ cmpProfiles = << >>
    /\ cmpProfiles' = ps
    /\ UNCHANGED << page, cmpYear, cmpOffense, cmpShowRate >>

\* the year <select> of the filter bar
CompareSelectYear(y) ==
    /\ CompareShown
    /\ y \in { All } \cup { YearString(z) : z \in cmpAvailableYears }
    /\ cmpYear' = y
    /\ UNCHANGED << page, cmpProfiles, cmpOffense, cmpShowRate >>

\* the offense <select> of the filter bar
CompareSelectOffense(o) ==
    /\ CompareShown
    /\ o \in { All } \cup cmpAvailableOffenses
    /\ cmpOffense' = o
    /\ UNCHANGED << page, cmpProfiles, cmpYear, cmpShowRate >>

\* the Total / Rate buttons of the filter bar
CompareSetShowRate(b) ==
    /\ CompareShown
    /\ cmpShowRate' = b
    /\ UNCHANGED << page, cmpProfiles, cmpYear, cmpOffense >>

-----------------------------------------------------------------------------
(* ETL: Enrollment Normalizer (etl/02a_transform_enrollment.py,            *)
(* etl/02b_transform_ef_enrollment.py), as documented in METHODOLOGY.md.   *)
(* FTE values are held in millionths.                                      *)

Micro == 1000000

\* PT_FACTOR_UNDERGRAD = 0.403543, in millionths
PT_FACTOR_UNDERGRAD == 403543

\* PT_FACTOR_GRADUATE = 0.361702, in millionths
PT_FACTOR_GRADUATE == 361702

\* largest of the small component counts the extracts are drawn from
MaxPart == 1

\* the raw enrollment extracts of one (institution, year): a pre-computed FTE
\* (DRVEF) and the four component counts (EF), each NULL when not supplied
EnrollmentExtracts ==
    [ direct : { NULL, 6988, 7000 },
      ftu : { NULL, 5000 } \cup (0..MaxPart),
      ftg : { NULL, 1000 } \cup (0..MaxPart),
      ptu : { NULL, 2000 } \cup (0..MaxPart),
      ptg : { NULL, 500 } \cup (0..MaxPart) ]

\* an FTE value: whole students and millionths of a student
Fte(whole, micro) == [whole |-> whole, micro |-> micro]

\* no FTE (explicitly null)
NoFte == Fte(NULL, NULL)

\* all four component counts are supplied
HasComponents(e) ==
    e.ftu # NULL /\ e.ftg # NULL /\ e.ptu # NULL /\ e.ptg # NULL

\* the part-time share with the two factors exchanged
PartTimeMicro_Swapped(e) ==
    e.ptu * PT_FACTOR_GRADUATE + e.ptg * PT_FACTOR_UNDERGRAD

\* the part-time share, in millionths:
\* PT_Undergrad * 0.403543 + PT_Graduate * 0.361702
PartTimeMicro(e) == e.ptu * PT_FACTOR_UNDERGRAD + e.ptg * PT_FACTOR_GRADUATE

\* FTE = FT_Undergrad + FT_Graduate + PT_Undergrad * 0.403543
\*       + PT_Graduate * 0.361702
CalculateFte(e) ==
    Fte(e.ftu + e.ftg + PartTimeMicro(e) \div Micro, PartTimeMicro(e) % Micro)

\* a resolution that recomputes from the components whenever it can
ResolveFte_ComputedFirst(e) ==
    IF HasComponents(e) THEN [fte |-> CalculateFte(e), method |-> "computed"]
    ELSE IF e.direct # NULL THEN [fte |-> Fte(e.direct, 0), method |-> "direct"]
    ELSE [fte |-> NoFte, method |-> "none"]

\* the FTE resolved for one (institution, year), with the method that gave it
ResolveFte(e) ==
    IF e.direct # NULL THEN [fte |-> Fte(e.direct, 0), method |-> "direct"]
    ELSE IF HasComponents(e) THEN [fte |-> CalculateFte(e), method |-> "computed"]
    ELSE [fte |-> NoFte, method |-> "none"]

\* an FTE rounded to one decimal for display, in tenths
FteTenths(f) == f.whole * 10 + (f.micro + 50000) \div 100000

\* the normalizer resolves the pair it has read
EtlResolve ==
    /\ page = "etl"
    /\ resolved = { }
    /\ resolved' = { ResolveFte(enrollment) }
    /\ UNCHANGED << page, enrollment, rankingsVars, profileVars, compareVars,
                    utilVars, otherVars >>

\* the normalizer reads the next (institution, year)
EtlNext(e) ==
    /\ page = "etl"
    /\ resolved # { }
    /\ enrollment' = e
    /\ resolved' = { }
    /\ UNCHANGED << page, rankingsVars, profileVars, compareVars, utilVars,
                    otherVars >>

-----------------------------------------------------------------------------
(* lib/utils.ts, called on its own *)

\* how far around the thresholds the arguments of a call are drawn
Span == 5

\* no call yet
NoCall == [fn |-> "none"]

\* a call isSmallSample(fte, incidents)
CallIsSmallSample(fte, incidents) ==
    /\ page = "utils"
    /\ call' = [fn |-> "isSmallSample", fte |-> fte, incidents |-> incidents,
                result |-> isSmallSample(fte, incidents)]
    /\ UNCHANGED << page, rankingsVars, profileVars, compareVars, etlVars,
                    otherVars >>

-----------------------------------------------------------------------------
(* The ETL pipeline run (etl/01_download_raw_data.py ... 05_generate_json.py). *)
(* The scripts are not part of the client sources; the run is modelled     *)
(* from its documented design: a single-threaded, strictly staged batch    *)
(* that aborts on a failed stage, treats audit failures as advisory, and   *)
(* publishes by swapping a freshly written directory into place.           *)

\* number of runs the model follows
MaxRuns == 2

\* the stages, in dependency order
Stages ==
    << "Raw Ingestion", "Enrollment Normalizer", "Incident Normalizer",
       "Dimension Builder", "Aggregator", "Rate Engine", "Audit Validator",
       "Publisher" >>

AuditStage == 7

PublisherStage == 8

\* the artifacts of one generation
Files == { "metadata.json", "rankings", "schools", "audit.json" }

\* the named checks of the audit (two of them)
Checks == { "completeness", "rate-correctness" }

\* the file `name` of generation g; audit.json carries the failed checks
File(name, g, failed) ==
    [name |-> name, gen |-> g,
     report |-> IF name = "audit.json" THEN failed ELSE { }]

\* the complete set of files of generation g
Generation(g, failed) == { File(n, g, failed) : n \in Files }

PipelineInitial ==
    /\ run = "idle"
    /\ gen = 0
    /\ stageStatus = [k \in DOMAIN Stages |-> "pending"]
    /\ fresh = { }
    /\ report = { }
    /\ published = { }
    /\ startPublished = { }

\* the operator starts a run: a fresh, empty location
StartRun ==
    /\ page = "pipeline"
    /\ run # "running"
    /\ gen < MaxRuns
    /\ run' = "running"
    /\ gen' = gen + 1
    /\ stageStatus' = [k \in DOMAIN Stages |-> "pending"]
    /\ fresh' = { }
    /\ report' = { }
    /\ startPublished' = published
    /\ UNCHANGED << published, outsidePipeline >>

\* StartStage without its guards on the other stages
StartStage_Unordered(k) ==
    /\ page = "pipeline"
    /\ run = "running"
    /\ stageStatus[k] = "pending"
    /\ stageStatus' = [stageStatus EXCEPT ![k] = "running"]
    /\ UNCHANGED << run, gen, fresh, report, published, startPublished,
                    outsidePipeline >>

\* stage k starts: no stage is running and every earlier stage is complete
StartStage(k) ==
    /\ page = "pipeline"
    /\ run = "running"
    /\ stageStatus[k] = "pending"
    /\ \A j \in DOMAIN Stages : stageStatus[j] # "running"
    /\ \A j \in 1..(k - 1) : stageStatus[j] = "complete"
    /\ stageStatus' = [stageStatus EXCEPT ![k] = "running"]
    /\ UNCHANGED << run, gen, fresh, report, published, startPublished,
                    outsidePipeline >>

\* a stage before the audit finishes with its complete output
FinishStage(k) ==
    /\ page = "pipeline"
    /\ run = "running"
    /\ k < AuditStage
    /\ stageStatus[k] = "running"
    /\ stageStatus' = [stageStatus EXCEPT ![k] = "complete"]
    /\ UNCHANGED << run, gen, fresh, report, published, startPublished,
                    outsidePipeline >>

\* a stage fails (schema error, I/O error): the run is aborted
FailStage(k) ==
    /\ page = "pipeline"
    /\ run = "running"
    /\ stageStatus[k] = "running"
    /\ stageStatus' = [stageStatus EXCEPT ![k] = "failed"]
    /\ run' = "aborted"
    /\ UNCHANGED << gen, fresh, report, published, startPublished,
                    outsidePipeline >>

\* AuditFinish as a hard gate: a failed check aborts the run
AuditFinish_HardGate(failed) ==
    /\ page = "pipeline"
    /\ run = "running"
    /\ stageStatus[AuditStage] = "running"
    /\ report' = failed
    /\ stageStatus' = [stageStatus EXCEPT
                         ![AuditStage] = IF failed = { } THEN "complete" ELSE "failed"]
    /\ run' = IF failed = { } THEN "running" ELSE "aborted"
    /\ UNCHANGED << gen, fresh, published, startPublished,
                    outsidePipeline >>

\* the Audit Validator finishes: the failed checks go into the report, and
\* the run goes on whatever they are
AuditFinish(failed) ==
    /\ page = "pipeline"
    /\ run = "running"
    /\ stageStatus[AuditStage] = "running"
    /\ report' = failed
    /\ stageStatus' = [stageStatus EXCEPT ![AuditStage] = "complete"]
    /\ UNCHANGED << run, gen, fresh, published, startPublished,
                    outsidePipeline >>

\* PublisherWrite overwriting the published directory file by file
PublisherWrite_InPlace(name) ==
    /\ page = "pipeline"
    /\ run = "running"
    /\ stageStatus[PublisherStage] = "running"
    /\ \A f \in fresh : f.name # name
    /\ fresh' = fresh \cup { File(name, gen, report) }
    /\ published' = { f \in published : f.name # name } \cup { File(name, gen, report) }
    /\ UNCHANGED << run, gen, stageStatus, report, startPublished,
                    outsidePipeline >>

\* the Publisher writes one file of the generation to the fresh location
PublisherWrite(name) ==
    /\ page = "pipeline"
    /\ run = "running"
    /\ stageStatus[PublisherStage] = "running"
    /\ \A f \in fresh : f.name # name
    /\ fresh' = fresh \cup { File(name, gen, report) }
    /\ UNCHANGED << run, gen, stageStatus, report, published, startPublished,
                    outsidePipeline >>

\* the Publisher swaps the complete fresh location into place
PublisherSwap ==
    /\ page = "pipeline"
    /\ run = "running"
    /\ stageStatus[PublisherStage] = "running"
    /\ { f.name : f \in fresh } = Files
    /\ published' = fresh
    /\ stageStatus' = [stageStatus EXCEPT ![PublisherStage] = "complete"]
    /\ run' = "done"
    /\ UNCHANGED << gen, fresh, report, startPublished,
                    outsidePipeline >>

-----------------------------------------------------------------------------
(* lib/api.ts: the school profile cache, and the pages that fetch through it *)

\* schools/{unitid}.json as the server holds it; of a profile only
\* yearlyTotals is listed, the one field a page operation writes to
SchoolJson(unitid) ==
    [unitid |-> unitid,
     yearlyTotals |->
        CASE unitid = 1 -> << [year |-> 2022, total |-> 3],
                                [year |-> 2023, total |-> 5] >>
          [] unitid = 2 -> << [year |-> 2023, total |-> 5],
                                [year |-> 2022, total |-> 3] >>
          [] OTHER        -> << [year |-> 2023, total |-> 5],
                                [year |-> 2021, total |-> 1],
                                [year |-> 2022, total |-> 3] >>]

\* x put into the ascending list s, after the elements of the same year
RECURSIVE InsertByYear(_, _)
InsertByYear(x, s) ==
    IF s = << >> THEN << x >>
    ELSE IF x.year < Head(s).year THEN << x >> \o s
    ELSE << Head(s) >> \o InsertByYear(x, Tail(s))

\* s.sort((a, b) => a.year - b.year): the elements of s by ascending year
RECURSIVE SortByYear(_)
SortByYear(s) ==
    IF s = << >> THEN << >>
    ELSE InsertByYear(s[Len(s)], SortByYear(SubSeq(s, 1, Len(s) - 1)))

\* the profile object after SchoolProfile has rendered it: yearlyChartData
\* sorts profile.yearlyTotals itself, not a copy
yearlyChartData(p) ==
    [p EXCEPT !.yearlyTotals = SortByYear(p.yearlyTotals)]

\* the profile object after the page that fetched it has rendered it;
\* Compare only reads (find, forEach, reduce, filter)
Rendered(by, p) == IF by = "profile" THEN yearlyChartData(p) ELSE p

NoReturn == [none |-> TRUE]

CacheInitial ==
    /\ schoolCache = [u \in Unitids |-> NoProfile]
    /\ schoolPending = { }
    /\ schoolReturned = NoReturn

\* a page (SchoolProfile's or Compare's load effect) calls
\* fetchSchoolProfile(unitid): a cached object is returned as it is and the
\* page renders it; otherwise the file is requested
FetchSchoolProfile(by, unitid) ==
    /\ page = "cache"
    /\ IF schoolCache[unitid] # NoProfile
       THEN /\ schoolReturned' = [unitid |-> unitid, data |-> schoolCache[unitid],
                                  cached |-> TRUE]
            /\ schoolCache' = [schoolCache EXCEPT
                                 ![unitid] = Rendered(by, schoolCache[unitid])]
            /\ UNCHANGED schoolPending
       ELSE /\ schoolPending' = schoolPending \cup { [unitid |-> unitid, by |-> by] }
            /\ UNCHANGED << schoolCache, schoolReturned >>
    /\ UNCHANGED outsideCache

\* the response to a request arrives: the parsed object is put into the
\* cache and returned, and the page that asked renders it
SchoolResponse(req) ==
    /\ page = "cache"
    /\ req \in schoolPending
    /\ schoolPending' = schoolPending \ { req }
    /\ schoolReturned' = [unitid |-> req.unitid, data |-> SchoolJson(req.unitid),
                          cached |-> FALSE]
    /\ schoolCache' = [schoolCache EXCEPT
                         ![req.unitid] = Rendered(req.by, SchoolJson(req.unitid))]
    /\ UNCHANGED outsideCache

-----------------------------------------------------------------------------
(* pages/Rankings.tsx: the load effect, with lib/api.ts fetchRankings *)

\* number of fetches in flight the model follows
MaxInFlight == 2

Presets == { "national", "ivy" }

\* a number that tells the selections apart
SelectionCode(preset, year, offense) ==
    (IF preset = "national" THEN 100 ELSE 200)
    + (IF year = 2022 THEN 10 ELSE 20)
    + (IF offense = All THEN 1 ELSE 2)

\* rankings/{preset}-{year}-all.json as the server holds it: one list per
\* offense, of one institution whose count tells the selection
RankingsJson(preset, year) ==
    [rankings |->
        [o \in OffenseCodes |->
           << [rank |-> 1, unitid |-> 1, count |-> SelectionCode(preset, year, o),
               fte |-> NULL, rate |-> NULL] >>],
     totals |-> [o \in OffenseCodes |-> SelectionCode(preset, year, o)]]

\* `${preset}-${year}`
CacheKey(preset, year) == << preset, year >>

LoadInitial ==
    /\ rkPreset = "national"
    /\ rkYear = 2023
    /\ rkPending = { }
    /\ rankingsCache = { }

\* the .then callback of the effect run made for the selection sel, with
\* the file's data
ThenSet(sel) ==
    /\ rankings' = RankingsJson(sel.preset, sel.year).rankings[sel.offense]
    /\ totals' = RankingsJson(sel.preset, sel.year).totals
    /\ loading' = FALSE

\* updateFilters to another selection, and the load effect it triggers:
\* fetchRankings answers from the cache at once, or requests the file
SelectAndFetch(preset, year, offense) ==
    /\ page = "load"
    /\ << preset, year, offense >> # << rkPreset, rkYear, rkOffense >>
    /\ rkPreset' = preset
    /\ rkYear' = year
    /\ rkOffense' = offense
    /\ displayCount' = LOAD_MORE_INCREMENT
    /\ IF CacheKey(preset, year) \in rankingsCache
       THEN /\ ThenSet([preset |-> preset, year |-> year, offense |-> offense])
            /\ UNCHANGED rkPending
       ELSE /\ Cardinality(rkPending) < MaxInFlight
            /\ rkPending' = rkPending \cup
                 { [preset |-> preset, year |-> year, offense |-> offense] }
            /\ loading' = TRUE
            /\ UNCHANGED << rankings, totals >>
    /\ UNCHANGED << page, sortByRate, rankingsCache, outsideLoad >>

\* the response to a request arrives, in any order: the data is cached and
\* the .then callback of its effect run sets the state
RankingsResponse(req) ==
    /\ page = "load"
    /\ req \in rkPending
    /\ rkPending' = rkPending \ { req }
    /\ rankingsCache' = rankingsCache \cup { CacheKey(req.preset, req.year) }
    /\ ThenSet(req)
    /\ UNCHANGED << page, rkPreset, rkYear, rkOffense, sortByRate, displayCount,
                    outsideLoad >>

-----------------------------------------------------------------------------
(* pages/Rankings.tsx: the comparison list (toggleCompare) *)

\* the schools of the rows a compare button can be clicked on
CompareCandidates == 1..5

\* the unitids of a list
UnitidsOf(list) == { list[i] : i \in DOMAIN list }

\* toggleCompare without the limit of two
toggleCompare_NoLimit(prev, unitid) ==
    IF unitid \in UnitidsOf(prev)
    THEN SelectSeq(prev, LAMBDA s : s # unitid)
    ELSE Append(prev, unitid)

\* the state updater of toggleCompare: the list after the call
toggleCompare(prev, unitid) ==
    IF unitid \in UnitidsOf(prev)
    THEN SelectSeq(prev, LAMBDA s : s # unitid)
    ELSE IF Len(prev) >= 2
    THEN SubSeq(prev, 2, Len(prev)) \o << unitid >>
    ELSE prev \o << unitid >>

NoToggle == [none |-> TRUE]

ToggleInitial ==
    /\ compareSchools = << >>
    /\ lastToggle = NoToggle

\* a click on the compare button of the row of `unitid`
ToggleCompare(unitid) ==
    /\ page = "toggle"
    /\ compareSchools' = toggleCompare(compareSchools, unitid)
    /\ lastToggle' = [unitid |-> unitid, before |-> compareSchools]
    /\ UNCHANGED outsideToggle

-----------------------------------------------------------------------------
(* components/SchoolSearch.tsx: loading the school index *)

\* number of requests and of user actions the model follows
MaxIndexRequests == 3

MaxActions == 3

\* the instances: one of each variant
SearchInstances == { "hero", "header" }

NoSearch == [none |-> TRUE]

NoIndex == -1

\* what the server may answer to a request for school-index.json: an index
\* of two schools, an index without schools, or a failure
IndexOutcomes == { "schools", "empty", "failed" }

\* index.schools.length of a successful answer
IndexLength(outcome) == IF outcome = "schools" THEN 2 ELSE 0

SearchInitial ==
    /\ srch = [i \in SearchInstances |-> NoSearch]
    /\ schoolIndexCache = NoIndex
    /\ indexRequests = 0
    /\ srchActions = 0

\* shouldLoad && !loading of the load effect, for an instance in state r
shouldLoad(r) ==
    /\ IF r.variant = "hero" THEN r.schools = 0 ELSE r.open /\ r.schools = 0
    /\ ~r.loading

\* the instance after its load effect has run on the rendered state r:
\* setLoading(true) and a fetchSchoolIndex call, answered from the cache
\* (cached) or by a request
AfterLoadEffect(r, cached) ==
    IF shouldLoad(r)
    THEN [r EXCEPT !.loading = TRUE,
                   !.pending = IF cached THEN "cache" ELSE "network"]
    ELSE r

\* the step of instance i to the rendered state r, with the index cache as
\* it then is: the load effect runs, and a request it makes is counted
SearchStep(i, r, cache) ==
    /\ srch' = [srch EXCEPT ![i] = AfterLoadEffect(r, cache # NoIndex)]
    /\ schoolIndexCache' = cache
    /\ IF shouldLoad(r) /\ cache = NoIndex
       THEN /\ indexRequests < MaxIndexRequests
            /\ indexRequests' = indexRequests + 1
       ELSE indexRequests' = indexRequests

\* the component mounts: useState initial values, then the load effect
SearchMount(i) ==
    /\ page = "search"
    /\ srch[i] = NoSearch
    /\ srchActions < MaxActions
    /\ srchActions' = srchActions + 1
    /\ SearchStep(i, [variant |-> i, open |-> (i = "hero"), schools |-> 0,
                      loading |-> FALSE, pending |-> "none"], schoolIndexCache)
    /\ UNCHANGED outsideSearch

\* the user opens the header search
SearchOpen(i) ==
    /\ page = "search"
    /\ srch[i] # NoSearch
    /\ srch[i].variant = "header"
    /\ ~srch[i].open
    /\ srchActions < MaxActions
    /\ srchActions' = srchActions + 1
    /\ SearchStep(i, [srch[i] EXCEPT !.open = TRUE], schoolIndexCache)
    /\ UNCHANGED outsideSearch

\* the header search closes (Escape, click outside)
SearchClose(i) ==
    /\ page = "search"
    /\ srch[i] # NoSearch
    /\ srch[i].variant = "header"
    /\ srch[i].open
    /\ SearchStep(i, [srch[i] EXCEPT !.open = FALSE], schoolIndexCache)
    /\ UNCHANGED << srchActions, outsideSearch >>

\* the answer to the request of instance i arrives: the index is cached
\* and .then runs (setSchools, setLoading(false)), or .catch
\* (setLoading(false)); then the load effect after the render
IndexResponse(i, outcome) ==
    /\ page = "search"
    /\ srch[i] # NoSearch
    /\ srch[i].pending = "network"
    /\ SearchStep(i,
                  [srch[i] EXCEPT
                     !.schools = IF outcome = "failed" THEN @ ELSE IndexLength(outcome),
                     !.loading = FALSE,
                     !.pending = "none"],
                  IF outcome = "failed" THEN schoolIndexCache ELSE IndexLength(outcome))
    /\ UNCHANGED << srchActions, outsideSearch >>

\* fetchSchoolIndex resolves with the cached index: .then, and the load
\* effect after the render
IndexFromCache(i) ==
    /\ page = "search"
    /\ srch[i] # NoSearch
    /\ srch[i].pending = "cache"
    /\ SearchStep(i,
                  [srch[i] EXCEPT !.schools = schoolIndexCache,
                                  !.loading = FALSE,
                                  !.pending = "none"],
                  schoolIndexCache)
    /\ UNCHANGED << srchActions, outsideSearch >>

-----------------------------------------------------------------------------
(* pages/Compare.tsx: the selection (selectedIds) and the URL *)

\* number of add/remove calls the model follows
MaxUrlOps == 2

\* a token parseInt reads no number from ('abc'); the other tokens are
\* numerals, modelled by their numbers
NaN == -1

\* searchParams.get('schools') gives null
NoParam == [present |-> FALSE, tokens |-> << >>]

\* the parameter with the value of the given comma-separated tokens
Param(tokens) == [present |-> TRUE, tokens |-> tokens]

\* the URLs the page is opened with: no parameter, an empty one, one to three
\* ids, unreadable tokens, a repeated id
OpeningParams ==
    { NoParam, Param(<< >>), Param(<< 1 >>), Param(<< 1, 2 >>), Param(<< 2, 1 >>),
      Param(<< 1, 2, 3 >>), Param(<< NaN >>), Param(<< NaN, 2 >>),
      Param(<< 3, NaN, 1, 2 >>), Param(<< 1, 1 >>) }

\* schoolsParam.split(',').map(parseInt).filter(id => !isNaN(id)), unsliced
ParseIds_NoLimit(tokens) == SelectSeq(tokens, LAMBDA t : t # NaN)

\* schoolsParam.split(',').map(parseInt).filter(id => !isNaN(id)).slice(0, 2)
ParseIds(tokens) ==
    LET ids == SelectSeq(tokens, LAMBDA t : t # NaN)
    IN  SubSeq(ids, 1, Min(2, Len(ids)))

\* a non-empty string: if (schoolsParam)
ParamTruthy(p) == p.present /\ p.tokens # << >>

\* the parameter after setSearchParams({ schools: ids.join(',') }) or
\* setSearchParams({})
ParamOf(ids) == IF Len(ids) > 0 THEN Param(ids) ELSE NoParam

\* the first n tokens of a list that are numbers
RECURSIVE FirstValid(_, _)
FirstValid(n, tokens) ==
    IF n = 0 \/ tokens = << >> THEN << >>
    ELSE IF Head(tokens) = NaN THEN FirstValid(n, Tail(tokens))
    ELSE << Head(tokens) >> \o FirstValid(n - 1, Tail(tokens))

UrlInitial ==
    /\ selectedIds = << >>
    /\ urlSchools = NoParam
    /\ urlDirty = { }
    /\ urlExpected = << >>
    /\ urlOps = 0

\* the page is opened on a URL: first render with the useState values; every
\* effect is due
OpenUrl(p) ==
    /\ page = "url"
    /\ urlOps = 0
    /\ urlDirty = { }
    /\ selectedIds = << >>
    /\ urlSchools = NoParam
    /\ urlSchools' = p
    /\ urlDirty' = { "ids", "search" }
    /\ urlExpected' = FirstValid(2, p.tokens)
    /\ UNCHANGED << selectedIds, urlOps, outsideUrl >>

\* the effects after a render, in their order: 'Initialize from URL params'
\* if searchParams changed, 'Update URL when selection changes' if
\* selectedIds or setSearchParams (which follows searchParams) changed; both
\* read the rendered state, their updates show in the next render
UrlEffects ==
    /\ page = "url"
    /\ urlDirty # { }
    /\ LET initSets == "search" \in urlDirty /\ ParamTruthy(urlSchools)
           written  == ParamOf(selectedIds)
       IN  /\ selectedIds' = IF initSets THEN ParseIds(urlSchools.tokens)
                             ELSE selectedIds
           /\ urlSchools' = written
           /\ urlDirty' = (IF initSets THEN { "ids" } ELSE { })
                          \cup (IF written # urlSchools THEN { "search" } ELSE { })
    /\ UNCHANGED << urlExpected, urlOps, outsideUrl >>

\* addSchool(unitid), on the settled page
AddSchool(unitid) ==
    /\ page = "url"
    /\ urlDirty = { }
    /\ urlOps < MaxUrlOps
    /\ urlOps' = urlOps + 1
    /\ IF Len(selectedIds) < 2 /\ unitid \notin UnitidsOf(selectedIds)
       THEN /\ selectedIds' = selectedIds \o << unitid >>
            /\ urlDirty' = { "ids" }
       ELSE UNCHANGED << selectedIds, urlDirty >>
    /\ urlExpected' = IF Len(urlExpected) < 2 /\ unitid \notin UnitidsOf(urlExpected)
                      THEN Append(urlExpected, unitid) ELSE urlExpected
    /\ UNCHANGED << urlSchools, outsideUrl >>

\* removeSchool(unitid), on the settled page: the button of a selected school
RemoveSchool(unitid) ==
    /\ page = "url"
    /\ urlDirty = { }
    /\ unitid \in UnitidsOf(selectedIds)
    /\ urlOps < MaxUrlOps
    /\ urlOps' = urlOps + 1
    /\ selectedIds' = SelectSeq(selectedIds, LAMBDA id : id # unitid)
    /\ urlDirty' = { "ids" }
    /\ urlExpected' = SelectSeq(urlExpected, LAMBDA id : id # unitid)
    /\ UNCHANGED << urlSchools, outsideUrl >>

-----------------------------------------------------------------------------
(* lib/api.ts: fetchMetadata, fetchPresets, fetchRankings, fetchSchoolProfile, *)
(* fetchSchoolIndex and clearCache.  The five operations are the same code   *)
(* over their own cache: return the cached object, or await fetchJson, throw *)
(* on failure, store the parsed object and return it.                        *)

\* number of requests and of clearCache calls the model follows
MaxApiRequests == 3

MaxClears == 1

\* the keys: the school index (a module variable) and one school profile (a
\* Map entry)
ApiKeys == { "school-index.json", "schools/1.json" }

\* objects are told apart by the number of the response they were parsed
\* from; no object
NoObject == 0

NoEvent == [kind |-> "none"]

ApiInitial ==
    /\ apiCache = [k \in ApiKeys |-> NoObject]
    /\ apiPending = [k \in ApiKeys |-> 0]
    /\ apiRequests = [k \in ApiKeys |-> 0]
    /\ apiFailures = [k \in ApiKeys |-> 0]
    /\ apiCompleted = [k \in ApiKeys |-> NoObject]
    /\ apiNext = 1
    /\ apiLast = NoEvent
    /\ apiClears = 0

\* if (schoolIndexCache) / schoolCache.has(unitid)
CacheHas(k) == apiCache[k] # NoObject

\* requests in flight, and requests failed since the last clearCache
InFlight == apiPending["school-index.json"] + apiPending["schools/1.json"]

Failed == apiFailures["school-index.json"] + apiFailures["schools/1.json"]

\* a caller calls the fetch operation of key k: the cached object is
\* returned, or the file is requested
ApiCall(k) ==
    /\ page = "api"
    /\ IF CacheHas(k)
       THEN /\ apiLast' = [kind |-> "return", key |-> k, object |-> apiCache[k],
                           hit |-> TRUE, late |-> apiCompleted[k] # NoObject]
            /\ UNCHANGED << apiPending, apiRequests >>
       ELSE /\ apiNext + InFlight + Failed <= MaxApiRequests
            /\ apiPending' = [apiPending EXCEPT ![k] = @ + 1]
            /\ apiRequests' = [apiRequests EXCEPT ![k] = @ + 1]
            /\ apiLast' = [kind |-> "request", key |-> k, object |-> NoObject,
                           hit |-> FALSE, late |-> apiCompleted[k] # NoObject]
    /\ UNCHANGED << apiCache, apiFailures, apiCompleted, apiNext, apiClears,
                    outsideApi >>

\* a request of key k is answered: the parsed object is stored and returned
ApiSuccess(k) ==
    /\ page = "api"
    /\ apiPending[k] > 0
    /\ apiPending' = [apiPending EXCEPT ![k] = @ - 1]
    /\ apiCache' = [apiCache EXCEPT ![k] = apiNext]
    /\ apiCompleted' = [apiCompleted EXCEPT ![k] = IF @ = NoObject THEN apiNext ELSE @]
    /\ apiNext' = apiNext + 1
    /\ apiLast' = [kind |-> "return", key |-> k, object |-> apiNext,
                   hit |-> FALSE, late |-> FALSE]
    /\ UNCHANGED << apiRequests, apiFailures, apiClears, outsideApi >>

\* a request of key k fails: the operation throws
ApiFailure(k) ==
    /\ page = "api"
    /\ apiPending[k] > 0
    /\ apiPending' = [apiPending EXCEPT ![k] = @ - 1]
    /\ apiFailures' = [apiFailures EXCEPT ![k] = @ + 1]
    /\ apiLast' = [kind |-> "throw", key |-> k, object |-> NoObject,
                   hit |-> FALSE, late |-> FALSE, cacheBefore |-> apiCache]
    /\ UNCHANGED << apiCache, apiRequests, apiCompleted, apiNext, apiClears,
                    outsideApi >>

\* clearCache(): every cache is emptied; requests in flight stay
ClearCache ==
    /\ page = "api"
    /\ apiClears < MaxClears
    /\ apiClears' = apiClears + 1
    /\ apiCache' = [k \in ApiKeys |-> NoObject]
    /\ apiRequests' = [k \in ApiKeys |-> 0]
    /\ apiFailures' = [k \in ApiKeys |-> 0]
    /\ apiCompleted' = [k \in ApiKeys |-> NoObject]
    /\ apiLast' = [kind |-> "clear"]
    /\ UNCHANGED << apiPending, apiNext, outsideApi >>

-----------------------------------------------------------------------------
(* hooks/useTheme.ts, used by App (the header button) and by the pages *)

\* number of reloads the model follows
MaxReloads == 2

Themes == { "light", "dark", "system" }

\* localStorage.getItem gives null
NoItem == "(null)"

\* what the browser may hold under the key before the first visit
StoredValues == Themes \cup { NoItem, "blue" }

\* the hook instances: App's, and the one of the mounted page
HookNames == { "App", "Page" }

NoHook == [none |-> TRUE]

isTheme(value) == value \in Themes

getSystemTheme == IF systemDark THEN "dark" ELSE "light"

resolveTheme(theme) == IF theme = "system" THEN getSystemTheme ELSE theme

\* applyThemeClass with the class following the preference, not the theme
applyThemeClass_FromSystem(theme) == getSystemTheme = "dark"

\* applyThemeClass(theme): whether the root has the class 'dark' afterwards
applyThemeClass(theme) == resolveTheme(theme) = "dark"

\* getInitialTheme always starting from the system theme
getInitialTheme_NotRestored == "system"

getInitialTheme == IF isTheme(stored) THEN stored ELSE "system"

\* the layout effect's write to localStorage: the item afterwards
StoredAfter(theme) == IF theme = "system" THEN NoItem ELSE theme

Mounted == { h \in HookNames : hooks[h] # NoHook }

\* the document before its first hook instance mounts, in a browser with
\* the item `item` and the preference `prefersDark`
BeforeMount(item, prefersDark) ==
    /\ hooks = [h \in HookNames |-> NoHook]
    /\ stored = item
    /\ rootDark = FALSE
    /\ systemDark = prefersDark
    /\ lastSet = NoItem
    /\ endedWith = NoItem
    /\ startedWith = NoItem
    /\ reloads = 0

ThemeInitial == BeforeMount(NoItem, FALSE)

\* a component using the hook mounts: useState initialisers, then the layout
\* effect (class, resolvedTheme, localStorage)
MountHook(h) ==
    /\ page = "theme"
    /\ hooks[h] = NoHook
    /\ h = "Page" => hooks["App"] # NoHook
    /\ hooks' = [hooks EXCEPT ![h] = [theme |-> getInitialTheme,
                                      resolvedTheme |-> resolveTheme(getInitialTheme)]]
    /\ rootDark' = applyThemeClass(getInitialTheme)
    /\ stored' = StoredAfter(getInitialTheme)
    /\ startedWith' = IF h = "App" THEN getInitialTheme ELSE startedWith
    /\ UNCHANGED << systemDark, lastSet, endedWith, reloads, outsideTheme >>

\* the page with the hook is left for one without
UnmountPage ==
    /\ page = "theme"
    /\ hooks["Page"] # NoHook
    /\ hooks' = [hooks EXCEPT !["Page"] = NoHook]
    /\ UNCHANGED << stored, rootDark, systemDark, lastSet, endedWith, startedWith,
                    reloads, outsideTheme >>

\* the value reaches the instance of App only: no 'theme-change' listener in
\* the instances of the pages
ThemeBecomes_AppOnly(value) ==
    /\ hooks' = [h \in HookNames |->
                   IF hooks[h] = NoHook THEN NoHook
                   ELSE IF h # "App" \/ hooks[h].theme = value THEN hooks[h]
                   ELSE [theme |-> value, resolvedTheme |-> resolveTheme(value)]]
    /\ IF hooks["App"] # NoHook /\ hooks["App"].theme # value
       THEN /\ rootDark' = applyThemeClass(value)
            /\ stored' = StoredAfter(value)
       ELSE UNCHANGED << rootDark, stored >>
    /\ lastSet' = value
    /\ UNCHANGED << systemDark, endedWith, startedWith, reloads, outsideTheme >>

\* every mounted instance takes the value (setThemeState in the caller, the
\* 'theme-change' event in all); the layout effect runs where theme changed
ThemeBecomes(value) ==
    /\ hooks' = [h \in HookNames |->
                   IF hooks[h] = NoHook THEN NoHook
                   ELSE IF hooks[h].theme = value THEN hooks[h]
                   ELSE [theme |-> value, resolvedTheme |-> resolveTheme(value)]]
    /\ IF \E h \in Mounted : hooks[h].theme # value
       THEN /\ rootDark' = applyThemeClass(value)
            /\ stored' = StoredAfter(value)
       ELSE UNCHANGED << rootDark, stored >>
    /\ lastSet' = value
    /\ UNCHANGED << systemDark, endedWith, startedWith, reloads, outsideTheme >>

\* setTheme(value), called on a mounted instance
SetTheme(h, value) ==
    /\ page = "theme"
    /\ hooks[h] # NoHook
    /\ ThemeBecomes(value)

\* toggleTheme(), called on a mounted instance
ToggleTheme(h) ==
    /\ page = "theme"
    /\ hooks[h] # NoHook
    /\ ThemeBecomes(IF \/ hooks[h].theme = "dark"
                       \/ (hooks[h].theme = "system" /\ hooks[h].resolvedTheme = "dark")
                    THEN "light" ELSE "dark")

\* App.cycleTheme: the header button, light -> dark -> system -> light
CycleTheme ==
    /\ page = "theme"
    /\ hooks["App"] # NoHook
    /\ ThemeBecomes(CASE hooks["App"].theme = "light" -> "dark"
                      [] hooks["App"].theme = "dark"  -> "system"
                      [] OTHER                        -> "light")

\* the system preference changes: the media query listeners of the instances
\* that follow the system
SystemChange ==
    /\ page = "theme"
    /\ systemDark' = ~systemDark
    /\ hooks' = [h \in HookNames |->
                   IF hooks[h] = NoHook \/ hooks[h].theme # "system" THEN hooks[h]
                   ELSE [hooks[h] EXCEPT
                           !.resolvedTheme = IF ~systemDark THEN "dark" ELSE "light"]]
    /\ rootDark' = IF \E h \in Mounted : hooks[h].theme = "system"
                   THEN ~systemDark ELSE rootDark
    /\ UNCHANGED << stored, lastSet, endedWith, startedWith, reloads, outsideTheme >>

\* the document is reloaded: every instance is gone, the class with it;
\* localStorage stays
Reload ==
    /\ page = "theme"
    /\ hooks["App"] # NoHook
    /\ reloads < MaxReloads
    /\ reloads' = reloads + 1
    /\ endedWith' = hooks["App"].theme
    /\ startedWith' = NoItem
    /\ hooks' = [h \in HookNames |-> NoHook]
    /\ rootDark' = FALSE
    /\ lastSet' = NoItem
    /\ UNCHANGED << stored, systemDark, outsideTheme >>

\* the initial state of everything outside the three pages, the normalizer
\* and lib/utils
OtherInitial ==
    /\ PipelineInitial
    /\ CacheInitial
    /\ ApiInitial
    /\ UrlInitial
    /\ SearchInitial
    /\ ToggleInitial
    /\ ThemeInitial
    /\ LoadInitial

-----------------------------------------------------------------------------
(* Specifications *)

NoExtract == [direct |-> NULL, ftu |-> NULL, ftg |-> NULL, ptu |-> NULL, ptg |-> NULL]

\* the client, opened on the Rankings page
Init ==
    /\ page = "rankings"
    /\ RankingsInitial
    /\ ProfileInitial
    /\ CompareInitial
    /\ enrollment = NoExtract
    /\ resolved = { }
    /\ call = NoCall
    /\ OtherInitial

NavRankings ==
    /\ \E o \in OffenseCodes : OpenRankings(o)
    /\ MountProfile /\ MountCompare
    /\ UNCHANGED << etlVars, utilVars, otherVars >>

NavProfile ==
    /\ OpenProfile
    /\ MountRankings(All) /\ MountCompare
    /\ UNCHANGED << etlVars, utilVars, otherVars >>

NavCompare ==
    /\ OpenCompare
    /\ MountRankings(All) /\ MountProfile
    /\ UNCHANGED << etlVars, utilVars, otherVars >>

OnRankings(A) ==
    A /\ UNCHANGED << profileVars, compareVars, etlVars, utilVars, otherVars >>
OnProfile(A)  ==
    A /\ UNCHANGED << rankingsVars, compareVars, etlVars, utilVars, otherVars >>
OnCompare(A)  ==
    A /\ UNCHANGED << rankingsVars, profileVars, etlVars, utilVars, otherVars >>

Next ==
    \/ NavRankings
    \/ NavProfile
    \/ NavCompare
    \/ \E o \in OffenseCodes : OnRankings(UpdateFilters(o))
    \/ \E d \in RankingsData : OnRankings(RankingsLoaded(d))
    \/ \E b \in BOOLEAN : OnRankings(SetSortByRate(b))
    \/ OnRankings(LoadMore)
    \/ \E d \in ProfileArtifacts : OnProfile(ProfileLoaded(d))
    \/ \E y \in Years : OnProfile(SelectYear(y))
    \/ \E o \in { All } \cup Offenses : OnProfile(SelectOffense(o))
    \/ \E b \in BOOLEAN : OnProfile(SetShowRate(b))
    \/ \E ps \in ComparePairs : OnCompare(CompareLoaded(ps))
    \/ \E y \in { All, "2022", "2023" } : OnCompare(CompareSelectYear(y))
    \/ \E o \in { All } \cup Offenses : OnCompare(CompareSelectOffense(o))
    \/ \E b \in BOOLEAN : OnCompare(CompareSetShowRate(b))

Spec == Init /\ [][Next]_vars

\* the pipeline's enrollment normalizer, run over the extracts
InitEtl ==
    /\ page = "etl"
    /\ RankingsInitial
    /\ ProfileInitial
    /\ CompareInitial
    /\ enrollment \in EnrollmentExtracts
    /\ resolved = { }
    /\ call = NoCall
    /\ OtherInitial

NextEtl ==
    \/ EtlResolve
    \/ \E e \in EnrollmentExtracts : EtlNext(e)

SpecEtl == InitEtl /\ [][NextEtl]_vars

\* lib/utils.ts, called with arguments around its thresholds
InitUtils ==
    /\ page = "utils"
    /\ RankingsInitial
    /\ ProfileInitial
    /\ CompareInitial
    /\ enrollment = NoExtract
    /\ resolved = { }
    /\ call = NoCall
    /\ OtherInitial

NextUtils ==
    \E fte \in { NULL, 0 } \cup ((1000 - Span)..(1000 + Span)),
       n \in (10 - Span)..(10 + Span) :
        CallIsSmallSample(fte, n)

SpecUtils == InitUtils /\ [][NextUtils]_vars

\* fetches of school profiles through the cache
InitCache ==
    /\ page = "cache"
    /\ RankingsInitial
    /\ ProfileInitial
    /\ CompareInitial
    /\ enrollment = NoExtract
    /\ resolved = { }
    /\ call = NoCall
    /\ OtherInitial

NextCache ==
    \/ \E unitid \in Unitids : FetchSchoolProfile("profile", unitid)
    \/ \E unitid \in Unitids : FetchSchoolProfile("compare", unitid)
    \/ \E req \in schoolPending : SchoolResponse(req)

SpecCache == InitCache /\ [][NextCache]_vars

\* the Rankings page with its fetches: mounted on the default selection,
\* metadata loaded, the first load effect run
InitLoad ==
    /\ page = "load"
    /\ rankings = << >>
    /\ totals = [ o \in OffenseCodes |-> NULL ]
    /\ rkOffense = All
    /\ loading = TRUE
    /\ sortByRate = FALSE
    /\ displayCount = LOAD_MORE_INCREMENT
    /\ rkPreset = "national"
    /\ rkYear = 2023
    /\ rkPending = { [preset |-> "national", year |-> 2023, offense |-> All] }
    /\ rankingsCache = { }
    /\ ProfileInitial
    /\ CompareInitial
    /\ enrollment = NoExtract
    /\ resolved = { }
    /\ call = NoCall
    /\ PipelineInitial
    /\ CacheInitial
    /\ ApiInitial
    /\ UrlInitial
    /\ SearchInitial
    /\ ToggleInitial
    /\ ThemeInitial

NextLoad ==
    \/ \E preset \in Presets : \E year \in Years : \E offense \in OffenseCodes :
         SelectAndFetch(preset, year, offense)
    \/ \E req \in rkPending : RankingsResponse(req)

SpecLoad == InitLoad /\ [][NextLoad]_vars

\* the comparison list of the Rankings page
InitToggle ==
    /\ page = "toggle"
    /\ RankingsInitial
    /\ ProfileInitial
    /\ CompareInitial
    /\ enrollment = NoExtract
    /\ resolved = { }
    /\ call = NoCall
    /\ OtherInitial

NextToggle == \E unitid \in CompareCandidates : ToggleCompare(unitid)

SpecToggle == InitToggle /\ [][NextToggle]_vars

\* a SchoolSearch and its loads of the school index
InitSearch ==
    /\ page = "search"
    /\ RankingsInitial
    /\ ProfileInitial
    /\ CompareInitial
    /\ enrollment = NoExtract
    /\ resolved = { }
    /\ call = NoCall
    /\ OtherInitial

NextSearch ==
    \/ \E i \in SearchInstances : SearchMount(i)
    \/ \E i \in SearchInstances : SearchOpen(i)
    \/ \E i \in SearchInstances : SearchClose(i)
    \/ \E i \in SearchInstances : \E outcome \in IndexOutcomes : IndexResponse(i, outcome)
    \/ \E i \in SearchInstances : IndexFromCache(i)

SpecSearch == InitSearch /\ [][NextSearch]_vars

\* the Compare page, its selection and its URL
InitUrl ==
    /\ page = "url"
    /\ RankingsInitial
    /\ ProfileInitial
    /\ CompareInitial
    /\ enrollment = NoExtract
    /\ resolved = { }
    /\ call = NoCall
    /\ OtherInitial

NextUrl ==
    \/ \E p \in OpeningParams : OpenUrl(p)
    \/ UrlEffects
    \/ \E unitid \in Unitids : AddSchool(unitid)
    \/ \E unitid \in Unitids : RemoveSchool(unitid)

\* React runs the effects of every render
SpecUrl == InitUrl /\ [][NextUrl]_vars /\ WF_vars(UrlEffects)

\* calls of the cached fetch operations
InitApi ==
    /\ page = "api"
    /\ RankingsInitial
    /\ ProfileInitial
    /\ CompareInitial
    /\ enrollment = NoExtract
    /\ resolved = { }
    /\ call = NoCall
    /\ OtherInitial

NextApi ==
    \/ \E k \in ApiKeys : ApiCall(k)
    \/ \E k \in ApiKeys : ApiSuccess(k)
    \/ \E k \in ApiKeys : ApiFailure(k)
    \/ ClearCache

SpecApi == InitApi /\ [][NextApi]_vars

\* the theme
InitTheme ==
    /\ page = "theme"
    /\ RankingsInitial
    /\ ProfileInitial
    /\ CompareInitial
    /\ enrollment = NoExtract
    /\ resolved = { }
    /\ call = NoCall
    /\ PipelineInitial
    /\ CacheInitial
    /\ ApiInitial
    /\ UrlInitial
    /\ SearchInitial
    /\ ToggleInitial
    /\ LoadInitial
    /\ \E item \in StoredValues : \E prefersDark \in BOOLEAN :
         BeforeMount(item, prefersDark)

NextTheme ==
    \/ \E h \in HookNames : MountHook(h)
    \/ UnmountPage
    \/ \E h \in HookNames : \E value \in Themes : SetTheme(h, value)
    \/ \E h \in HookNames : ToggleTheme(h)
    \/ CycleTheme
    \/ SystemChange
    \/ Reload

SpecTheme == InitTheme /\ [][NextTheme]_vars

\* runs of the pipeline
InitPipeline ==
    /\ page = "pipeline"
    /\ RankingsInitial
    /\ ProfileInitial
    /\ CompareInitial
    /\ enrollment = NoExtract
    /\ resolved = { }
    /\ call = NoCall
    /\ OtherInitial

\* the steps a run takes by itself
PipelineProgress ==
    \/ \E k \in DOMAIN Stages : StartStage(k)
    \/ \E k \in DOMAIN Stages : FinishStage(k)
    \/ \E failed \in SUBSET Checks : AuditFinish(failed)
    \/ \E name \in Files : PublisherWrite(name)
    \/ PublisherSwap

NextPipeline ==
    \/ StartRun
    \/ \E k \in DOMAIN Stages : StartStage(k)
    \/ \E k \in DOMAIN Stages : FinishStage(k)
    \/ \E k \in DOMAIN Stages : FailStage(k)
    \/ \E failed \in SUBSET Checks : AuditFinish(failed)
    \/ \E name \in Files : PublisherWrite(name)
    \/ PublisherSwap

\* a started run keeps going until it is done or a stage fails
SpecPipeline == InitPipeline /\ [][NextPipeline]_vars /\ WF_vars(PipelineProgress)

-----------------------------------------------------------------------------
(* Properties *)

\* the value v (in tenths) is total / fte * 10000 rounded to one decimal,
\* halves up: -1/2 <= total * 100000 / fte - v < 1/2
IsRateToOneDecimal(v, total, fte) ==
    /\ 2 * (fte * v - total * 100000) > -fte
    /\ 2 * (fte * v - total * 100000) <= fte

\* C1: in the rate-sorted view of the Rankings page every entry of the rate
\* ranking (and so every entry shown) has a non-null fte >= 1000 and a
\* non-null rate; an entry of the loaded list with fte < 1000 or null fte is
\* not in it, whatever its count.
C1_RateViewOnlyQualified ==
    (page = "rankings" /\ sortByRate) =>
        /\ \A i \in DOMAIN sortedRankings :
              /\ sortedRankings[i].fte # NULL
              /\ sortedRankings[i].fte >= 1000
              /\ sortedRankings[i].rate # NULL
        /\ \A i \in DOMAIN displayedRankings :
              /\ displayedRankings[i].fte # NULL
              /\ displayedRankings[i].fte >= 1000
              /\ displayedRankings[i].rate # NULL
        /\ \A j \in DOMAIN rankings :
              (rankings[j].fte = NULL \/ rankings[j].fte < 1000) =>
                  \A i \in DOMAIN sortedRankings :
                      sortedRankings[i].unitid # rankings[j].unitid

\* C1 witness: the rate view is shown for a list that holds a 50-incident
\* entry below the threshold, an entry without FTE and a qualifying entry.
C1_Witness ==
    /\ RankingsShown
    /\ sortByRate
    /\ \E j \in DOMAIN rankings : rankings[j].fte = 999 /\ rankings[j].rate # NULL
    /\ \E j \in DOMAIN rankings : rankings[j].fte = NULL /\ rankings[j].count = 50
    /\ Len(displayedRankings) = 1
    /\ Len(rankings) = 3

\* C2: for every numeric fte and every count, isSmallSample(fte, count) is
\* true exactly when fte < 1000 or count < 10; 999 / 1000 and 9 / 10 fall on
\* the two sides.
C2_IsSmallSampleIff ==
    (call.fn = "isSmallSample" /\ call.fte # NULL) =>
        /\ call.result = TRUE <=> (call.fte < 1000 \/ call.incidents < 10)
        /\ (call.fte = 999 \/ call.incidents = 9) => call.result = TRUE
        /\ (call.fte = 1000 /\ call.incidents = 10) => call.result = FALSE

\* C2 witness: the call on both boundaries at once, isSmallSample(1000, 10).
C2_Witness ==
    /\ call.fn = "isSmallSample"
    /\ call.fte = 1000
    /\ call.incidents = 10
    /\ call.result = FALSE

C3_RankingsCase ==
    /\ RankingsShown
    /\ sortByRate
    /\ \E j \in DOMAIN rankings : rankings[j].fte = 800 /\ rankings[j].count = 3
    /\ \E j \in DOMAIN rankings : rankings[j].fte = 800 /\ rankings[j].count = 50
    /\ Len(sortedRankings) = 1

\* C4, as stated: when the institution has no FTE for the selected year, the
\* rate of that year is unavailable on the school profile and on the compare
\* page; neither computes it from a zero or from the FTE of another year.
C4_NoFteNoRate ==
    /\ (ProfileShown /\ Truthy(selectedYear)
            /\ profile.fteByYear[selectedYear] = NULL) =>
          /\ selectedYearRate = NoRate
          /\ showRate => RateCard.text = "N/A"
    /\ (CompareShown /\ cmpYear # All) =>
          \A i \in DOMAIN cmpProfiles :
              cmpProfiles[i].fteByYear[ParseInt(cmpYear)] = NULL =>
                  /\ filteredMetrics(i).rate = NoRate
                  /\ cmpShowRate => MetricsCell(i).text = "N/A"

\* C5, as stated: when there is no record for the selected year and offense,
\* the incident total and the rate derived from it are absent, not 0, on the
\* school profile, in the total of the Rankings page and on the compare page.
C5_MissingRecordStaysAbsent ==
    /\ (ProfileShown /\ Truthy(selectedYear)
            /\ (IF selectedOffense = All
                THEN YearTotalOf(profile, selectedYear)
                ELSE TrendCountOf(profile, selectedYear, selectedOffense)) = NULL) =>
          /\ selectedYearTotal = NULL
          /\ selectedYearRate = NoRate
    /\ (page = "rankings" /\ ~loading /\ totals[rkOffense] = NULL) =>
          currentTotal = NULL
    /\ (CompareShown /\ cmpYear # All) =>
          \A i \in DOMAIN cmpProfiles :
              (IF cmpOffense = All
               THEN YearTotalOf(cmpProfiles[i], ParseInt(cmpYear))
               ELSE TrendCountOf(cmpProfiles[i], ParseInt(cmpYear), cmpOffense)) = NULL =>
                  /\ filteredMetrics(i).totalIncidents = NULL
                  /\ filteredMetrics(i).rate = NoRate

\* C6, as stated: the total the profile page takes over its location
\* breakdown is on-campus + non-campus + public property, and never includes
\* the residence-hall count.
C6_GeoTotalExcludesResidenceHalls ==
    ProfileShown =>
        GeoLegendTotal = GeoCount(profile, "On-campus")
                         + GeoCount(profile, "Non-campus")
                         + GeoCount(profile, "Public property")

\* C7: a rate that is displayed (school profile rate card, compare metrics
\* cell) is total / FTE * 10000 to one decimal, and the profile shows one
\* whenever rate mode is on and the FTE is positive; 50 incidents over FTE
\* 5000 show 100.0 without the marker, 3 incidents over FTE 1500 show 20.0
\* with it.
C7_DisplayedRate ==
    /\ (ProfileShown /\ showRate /\ selectedYearFte # NULL /\ selectedYearFte > 0) =>
          /\ RateCard.text = "rate"
          /\ IsRateToOneDecimal(RateCard.value, selectedYearTotal, selectedYearFte)
          /\ (selectedYearTotal = 50 /\ selectedYearFte = 5000) =>
                (RateCard.value = 1000 /\ RateCard.star = FALSE)
          /\ (selectedYearTotal = 3 /\ selectedYearFte = 1500) =>
                (RateCard.value = 200 /\ RateCard.star = TRUE)
    /\ CompareShown =>
          \A i \in DOMAIN cmpProfiles :
              MetricsCell(i).text = "rate" =>
                  LET m == filteredMetrics(i)
                  IN  /\ m.fte # NULL /\ m.fte > 0 /\ m.totalIncidents # NULL
                      /\ IsRateToOneDecimal(MetricsCell(i).value,
                                            m.totalIncidents, m.fte)
                      /\ (m.totalIncidents = 50 /\ m.fte = 5000) =>
                            (MetricsCell(i).value = 1000 /\ MetricsCell(i).star = FALSE)
                      /\ (m.totalIncidents = 3 /\ m.fte = 1500) =>
                            (MetricsCell(i).value = 200 /\ MetricsCell(i).star = TRUE)

\* C7 witness: a comparison in rate mode of 50 incidents over FTE 5000
\* (100.0, no marker) with 3 incidents over FTE 1500 (20.0, marker).
C7_Witness ==
    /\ CompareShown
    /\ cmpShowRate
    /\ cmpYear = "2023"
    /\ cmpOffense = All
    /\ filteredMetrics(1).totalIncidents = 50 /\ filteredMetrics(1).fte = 5000
    /\ MetricsCell(1) = [text |-> "rate", value |-> 1000, star |-> FALSE]
    /\ filteredMetrics(2).totalIncidents = 3 /\ filteredMetrics(2).fte = 1500
    /\ MetricsCell(2) = [text |-> "rate", value |-> 200, star |-> TRUE]

\* C7, on the school profile: 50 incidents over FTE 900 are 555.55...,
\* shown as 555.6 with the marker.
C7_ProfileCase ==
    /\ ProfileShown
    /\ showRate
    /\ selectedYearTotal = 50
    /\ selectedYearFte = 900
    /\ RateCard = [text |-> "rate", value |-> 5556, star |-> TRUE]

\* the extract of scenario A: FTU = 5000, FTG = 1000, PTU = 2000, PTG = 500,
\* no pre-computed FTE
ScenarioA ==
    [direct |-> NULL, ftu |-> 5000, ftg |-> 1000, ptu |-> 2000, ptg |-> 500]

\* the computed FTE f is FTU + FTG + 0.403543 * PTU + 0.361702 * PTG, to the
\* millionth
IsExactFte(f, e) ==
    /\ f.micro >= 0
    /\ f.micro < 1000000
    /\ (f.whole - e.ftu - e.ftg) * 1000000 + f.micro
           = e.ptu * 403543 + e.ptg * 361702

\* C8: on the computed path the FTE is FTU + FTG + 0.403543 * PTU
\* + 0.361702 * PTG exactly; for scenario A it is 6987.937, which is 6987.9
\* when rounded to one decimal.
C8_ComputedFteExact ==
    \A r \in resolved :
        r.method = "computed" =>
            /\ IsExactFte(r.fte, enrollment)
            /\ enrollment = ScenarioA =>
                  (r.fte = Fte(6987, 937000) /\ FteTenths(r.fte) = 69879)

\* C8 witness: scenario A has been resolved on the computed path.
C8_Witness ==
    /\ enrollment = ScenarioA
    /\ resolved = { [fte |-> Fte(6987, 937000), method |-> "computed"] }

\* C8, as stated: the computed FTE is exact, and for scenario A it is 6988.0
\* when rounded to one decimal.
C8_ScenarioGives6988 ==
    \A r \in resolved :
        r.method = "computed" =>
            /\ IsExactFte(r.fte, enrollment)
            /\ enrollment = ScenarioA => FteTenths(r.fte) = 69880

\* C9: when both a pre-computed FTE and all four component counts are
\* supplied, the resolved FTE is the pre-computed value, unchanged; a resolved
\* (institution, year) has exactly one FTE value.
C9_DirectSourcePreferred ==
    resolved # { } =>
        /\ Cardinality(resolved) = 1
        /\ (enrollment.direct # NULL /\ HasComponents(enrollment)) =>
              resolved = { [fte |-> Fte(enrollment.direct, 0), method |-> "direct"] }

\* C9 witness: a pre-computed FTE of 7000 next to the components of scenario
\* A (6987.937 when computed) resolves to 7000.
C9_Witness ==
    /\ enrollment = [ScenarioA EXCEPT !.direct = 7000]
    /\ resolved = { [fte |-> Fte(7000, 0), method |-> "direct"] }

-----------------------------------------------------------------------------
(* States in which the page departs from C4, C5 and C6 *)

\* C4: FTE is on file for 2023 only (5000); with 2022 selected the profile
\* shows the rate 50 / 5000 * 10000 = 100.0
C4_FailingCase ==
    /\ ProfileShown
    /\ showRate
    /\ selectedYear = 2022
    /\ selectedOffense = All
    /\ profile.fteByYear[2022] = NULL
    /\ profile.fte = 5000
    /\ RateCard = [text |-> "rate", value |-> 1000, star |-> FALSE]

\* C4: the compare page divides the 2022 total by the 2023 FTE although the
\* institution's 2022 FTE is 1500
C4_CompareOtherYearCase ==
    /\ CompareShown
    /\ cmpShowRate
    /\ cmpYear = "2022"
    /\ cmpOffense = All
    /\ cmpProfiles[1].fteByYear[2022] = 1500
    /\ cmpProfiles[1].fte = 5000
    /\ MetricsCell(1) = [text |-> "rate", value |-> 1000, star |-> FALSE]

\* C5: Burglary has a record for 2022 only; with Burglary and 2023 selected
\* the profile shows the total 0 and, in rate mode, the rate 0.0
C5_FailingCase ==
    /\ ProfileShown
    /\ showRate
    /\ selectedYear = 2023
    /\ selectedOffense = "Burglary"
    /\ TrendCountOf(profile, 2023, "Burglary") = NULL
    /\ TrendCountOf(profile, 2022, "Burglary") = 3
    /\ selectedYearTotal = 0
    /\ selectedYearFte = 5000
    /\ RateCard = [text |-> "rate", value |-> 0, star |-> TRUE]

\* C5: the loaded artifact has no total for the selected offense; the page
\* shows 0
C5_RankingsTotalCase ==
    /\ page = "rankings"
    /\ ~loading
    /\ rkOffense = "burglary"
    /\ totals["burglary"] = NULL
    /\ currentTotal = 0

\* C6: on-campus 10, residence halls 4, non-campus 2, public property 1: the
\* legend takes its percentages of 17
C6_FailingCase ==
    /\ ProfileShown
    /\ GeoCount(profile, "On-campus") = 10
    /\ GeoCount(profile, "Residence halls") = 4
    /\ GeoCount(profile, "Non-campus") = 2
    /\ GeoCount(profile, "Public property") = 1
    /\ GeoLegendTotal = 17


\* the record count of (year, offense) in profile p, NULL when there is no
\* record
RecordCount(p, y, o) ==
    IF o = All THEN YearTotalOf(p, y) ELSE TrendCountOf(p, y, o)

\* the change yoy is what its two records give: null when one is missing,
\* else their difference
IsRecordDelta(yoy, cur, prev) ==
    IF cur = NULL \/ prev = NULL THEN yoy = NoYoY
    ELSE yoy # NoYoY /\ yoy.absolute = cur - prev

\* C11: on the profile page and on the compare page, for all offenses and
\* for one offense, the year-over-year change is the selected year's record
\* count minus the previous year's, and null when either record is missing.
C11_YoYFromRecordsOnly ==
    /\ (ProfileShown /\ Truthy(selectedYear)) =>
          IsRecordDelta(selectedYearYoYChange,
                        RecordCount(profile, selectedYear, selectedOffense),
                        RecordCount(profile, selectedYear - 1, selectedOffense))
    /\ (CompareShown /\ cmpYear # All) =>
          \A i \in DOMAIN cmpProfiles :
              IsRecordDelta(filteredMetrics(i).yoyChange,
                            RecordCount(cmpProfiles[i], ParseInt(cmpYear), cmpOffense),
                            RecordCount(cmpProfiles[i], ParseInt(cmpYear) - 1, cmpOffense))

\* C11 witness: 2023 is selected on a profile whose 2023 record is missing
\* while 2022 has 50: no change is computed, and the page shows none.
C11_Witness ==
    /\ ProfileShown
    /\ selectedYear = 2023
    /\ selectedOffense = All
    /\ YearTotalOf(profile, 2023) = NULL
    /\ YearTotalOf(profile, 2022) = 50
    /\ selectedYearYoYChange = NoYoY
    /\ YoYLine.text = "nothing"

\* C11, both records present: 3 in 2023 after 50 in 2022 is -47, and 3 after
\* a recorded 0 is +3 on the compare page.
C11_DeltaCase ==
    /\ CompareShown
    /\ cmpYear = "2023"
    /\ cmpOffense = All
    /\ YearTotalOf(cmpProfiles[1], 2022) = 0
    /\ YoYCell(1) = [text |-> "change", value |-> 3]


\* the rendering r shows no number
ShowsNoNumber(r) == r.text \in { "N/A", "dash", "nothing" } /\ r.value = NULL

\* C12: an absent rate or FTE never renders as 0 or as any number.  The
\* school profile and the compare page render an absent rate as "N/A"; the
\* Rankings table renders an absent rate or FTE as a dash; elsewhere an
\* absent FTE is left out.  An absent year-over-year change renders nothing
\* on the school profile and "N/A" on the compare page.
C12_AbsentNeverANumber ==
    /\ RankingsShown =>
          \A i \in DOMAIN displayedRankings :
              /\ displayedRankings[i].fte = NULL =>
                    /\ FteCell(i).text = "dash" /\ ShowsNoNumber(FteCell(i))
                    /\ FteBadge(i).text = "nothing" /\ ShowsNoNumber(FteBadge(i))
              /\ (sortByRate /\ displayedRankings[i].rate = NULL) =>
                    RateCell(i).text = "dash"
    /\ ProfileShown =>
          /\ (showRate /\ selectedYearRate = NoRate) =>
                RateCard.text = "N/A" /\ ShowsNoNumber(RateCard)
          /\ profile.fte = NULL =>
                FteHeader.text = "nothing" /\ ShowsNoNumber(FteHeader)
          /\ selectedYearFte = NULL => ShowsNoNumber(BasedOnFte)
          /\ selectedYearYoYChange = NoYoY =>
                YoYLine.text = "nothing" /\ ShowsNoNumber(YoYLine)
    /\ CompareShown =>
          \A i \in DOMAIN cmpProfiles :
              /\ (cmpShowRate /\ filteredMetrics(i).rate = NoRate) =>
                    MetricsCell(i).text = "N/A" /\ ShowsNoNumber(MetricsCell(i))
              /\ cmpProfiles[i].fte = NULL =>
                    CmpFteLine(i).text = "nothing" /\ ShowsNoNumber(CmpFteLine(i))
              /\ filteredMetrics(i).yoyChange = NoYoY =>
                    YoYCell(i).text = "N/A" /\ ShowsNoNumber(YoYCell(i))

\* C12 witness: the compare page in rate mode with a profile that has no FTE
\* and no 2022 record: rate and year-over-year change both show "N/A".
C12_Witness ==
    /\ CompareShown
    /\ cmpShowRate
    /\ cmpYear = "2023"
    /\ cmpProfiles[1].fte = NULL
    /\ filteredMetrics(1).totalIncidents = 50
    /\ MetricsCell(1).text = "N/A"
    /\ YoYCell(1).text = "N/A"
    /\ CmpFteLine(1).text = "nothing"

\* C12, on the Rankings page: an entry without FTE is shown with a dash in
\* the Enrollment column.
C12_RankingsCase ==
    /\ RankingsShown
    /\ ~sortByRate
    /\ \E i \in DOMAIN displayedRankings :
          displayedRankings[i].fte = NULL /\ FteCell(i).text = "dash"

\* C12, as stated: an absent rate or FTE renders as "N/A" in every view, and
\* an absent year-over-year change renders nothing.
C12_AbsentRendersNA ==
    /\ RankingsShown =>
          \A i \in DOMAIN displayedRankings :
              displayedRankings[i].fte = NULL => FteCell(i).text = "N/A"
    /\ ProfileShown =>
          /\ (showRate /\ selectedYearRate = NoRate) => RateCard.text = "N/A"
          /\ selectedYearYoYChange = NoYoY => YoYLine.text = "nothing"
    /\ CompareShown =>
          \A i \in DOMAIN cmpProfiles :
              /\ (cmpShowRate /\ filteredMetrics(i).rate = NoRate) =>
                    MetricsCell(i).text = "N/A"
              /\ filteredMetrics(i).yoyChange = NoYoY =>
                    YoYCell(i).text = "nothing"


C13_CompareCase ==
    /\ CompareShown
    /\ cmpShowRate
    /\ cmpYear = "2023"
    /\ cmpOffense = All
    /\ cmpProfiles[2].fte = 800
    /\ MetricsCell(2) = [text |-> "rate", value |-> 375, star |-> TRUE]

IsWholeGeneration(dir) ==
    \/ dir = { }
    \/ \E g \in 1..MaxRuns : \E failed \in SUBSET Checks : dir = Generation(g, failed)

\* C14: the published directory is at every moment empty or one complete
\* generation; it is the one the run started with until the swap, and a run
\* that was aborted has left it as it was.
C14_PublishedNeverPartial ==
    /\ IsWholeGeneration(published)
    /\ run \in { "running", "aborted" } => published = startPublished
    /\ run = "done" => published = Generation(gen, report)

\* C14 witness: the second run was aborted while the Publisher had written
\* part of its files; the first generation is still the published one.
C14_Witness ==
    /\ run = "aborted"
    /\ stageStatus[PublisherStage] = "failed"
    /\ fresh # { }
    /\ { f.name : f \in fresh } # Files
    /\ published = Generation(1, Checks)
    /\ gen = 2

\* C15: at most one stage is running, and a stage that has started has every
\* earlier stage complete.
C15_StagesInOrder ==
    /\ Cardinality({ k \in DOMAIN Stages : stageStatus[k] = "running" }) <= 1
    /\ \A k \in DOMAIN Stages :
         stageStatus[k] # "pending"
           => \A j \in 1..(k - 1) : stageStatus[j] = "complete"

\* C15 witness: the Rate Engine is running after the five stages before it.
C15_Witness ==
    /\ run = "running"
    /\ stageStatus[6] = "running"
    /\ \A j \in 1..5 : stageStatus[j] = "complete"
    /\ \A j \in 7..8 : stageStatus[j] = "pending"

\* the audit of the current run has recorded failed checks
AuditFailed == stageStatus[AuditStage] = "complete" /\ report # { }

\* C16: failed audit checks never abort the run (a run with failed checks on
\* record is aborted only by a failure of the Publisher), a run that is done
\* has published the report with the failures, and a run whose audit
\* recorded failures goes on to be done unless the Publisher itself fails.
C16_AuditIsAdvisory ==
    /\ [](run = "aborted" /\ report # { } => stageStatus[PublisherStage] = "failed")
    /\ [](run = "done" => File("audit.json", gen, report) \in published)
    /\ ((run = "running" /\ AuditFailed)
          ~> (run = "done" \/ stageStatus[PublisherStage] = "failed"))

\* C16 witness: a run with both checks failed is done and its audit.json,
\* with both failures, is published.
C16_Witness ==
    /\ run = "done"
    /\ report = Checks
    /\ File("audit.json", gen, Checks) \in published
    /\ published = Generation(gen, Checks)


\* C17: the client only reads what it fetched: every cached profile object is
\* as schools/{unitid}.json delivered it, and so is every object
\* fetchSchoolProfile resolves with, from the cache or not.
C17_ArtifactsReadOnly ==
    /\ \A u \in Unitids :
         schoolCache[u] # NoProfile => schoolCache[u] = SchoolJson(u)
    /\ schoolReturned # NoReturn
         => schoolReturned.data = SchoolJson(schoolReturned.unitid)

\* C17: the file of institution 2 lists 2023 before 2022; after SchoolProfile
\* has shown it, the cached object lists 2022 first
C17_FailingCase ==
    /\ schoolCache[2] # NoProfile
    /\ SchoolJson(2).yearlyTotals[1].year = 2023
    /\ schoolCache[2].yearlyTotals[1].year = 2022

\* C17: a later fetch of institution 2 is answered from the cache with the
\* reordered object
C17_ReturnedAgainCase ==
    /\ schoolReturned # NoReturn
    /\ schoolReturned.cached
    /\ schoolReturned.unitid = 2
    /\ schoolReturned.data # SchoolJson(2)
    /\ schoolReturned.data.yearlyTotals = SortByYear(SchoolJson(2).yearlyTotals)


\* C18: with the hook mounted (its effect has run), the document root has the
\* class 'dark' exactly if the resolved theme of every instance is dark, the
\* resolved theme is the theme resolved against the system preference, and
\* after the theme was set to 'dark' the class is present.
C18_RootClassFollowsTheme ==
    /\ \A h \in Mounted :
         /\ rootDark <=> hooks[h].resolvedTheme = "dark"
         /\ hooks[h].resolvedTheme = resolveTheme(hooks[h].theme)
    /\ Mounted # { } /\ lastSet = "dark" => rootDark

\* C18 witness: the theme was set to 'dark' while the system prefers light,
\* and the class is present.
C18_Witness ==
    /\ hooks["App"] # NoHook
    /\ lastSet = "dark"
    /\ ~systemDark
    /\ hooks["App"].theme = "dark"
    /\ rootDark

\* C18: the theme was set to 'system' while the system prefers dark, in two
\* instances
C18_SystemCase ==
    /\ Mounted = HookNames
    /\ lastSet = "system"
    /\ systemDark
    /\ \A h \in HookNames : hooks[h].resolvedTheme = "dark"
    /\ rootDark

\* C19: with App's hook mounted, localStorage holds the theme under the key
\* if it is 'light' or 'dark' and holds no item if it is 'system'; and the
\* hook of a reloaded document starts with the theme the last one ended with.
C19_ThemeRestored ==
    /\ hooks["App"] # NoHook =>
         /\ hooks["App"].theme \in { "light", "dark" } => stored = hooks["App"].theme
         /\ hooks["App"].theme = "system" => stored = NoItem
    /\ endedWith # NoItem /\ startedWith # NoItem => startedWith = endedWith

\* C19 witness: the document was left with the theme 'dark' and the reloaded
\* one started with 'dark', read from localStorage.
C19_Witness ==
    /\ reloads > 0
    /\ endedWith = "dark"
    /\ hooks["App"] # NoHook
    /\ startedWith = "dark"
    /\ stored = "dark"
    /\ lastSet = NoItem

\* C19: the document was left with the theme 'system': no item is stored and
\* the reloaded one starts with 'system'
C19_SystemCase ==
    /\ reloads > 0
    /\ endedWith = "system"
    /\ startedWith = "system"
    /\ stored = NoItem


\* C20: once no fetch is in flight the Rankings page is not loading and shows
\* the list and the totals of the selected (preset, year, offense), in
\* whatever order the responses arrived.
C20_ShownMatchesSelection ==
    rkPending = { } =>
        /\ ~loading
        /\ rankings = RankingsJson(rkPreset, rkYear).rankings[rkOffense]
        /\ totals = RankingsJson(rkPreset, rkYear).totals

\* C20: the page was opened on (national, 2023, all) and the year changed to
\* 2022 before the first response; the response for 2022 arrived first, the
\* one for 2023 last, and the page shows the 2023 list under the year 2022
C20_FailingCase ==
    /\ rkPending = { }
    /\ ~loading
    /\ rkPreset = "national" /\ rkYear = 2022 /\ rkOffense = All
    /\ rankingsCache = { CacheKey("national", 2022), CacheKey("national", 2023) }
    /\ rankings = RankingsJson("national", 2023).rankings[All]
    /\ rankings # RankingsJson("national", 2022).rankings[All]

\* C20: the late response to an earlier selection replaces the data the cache
\* gave for the latest selection
C20_AfterCacheHitCase ==
    /\ rkPending = { }
    /\ CacheKey(rkPreset, rkYear) \in rankingsCache
    /\ rkOffense = "burglary"
    /\ rankings = RankingsJson(rkPreset, rkYear).rankings[All]


\* C21: the comparison list holds at most two schools, all different; a
\* toggle of a school in the list removes it and keeps the others, a toggle
\* of another school appends it, dropping the oldest one of a full list.
C21_AtMostTwoDistinct ==
    /\ Len(compareSchools) <= 2
    /\ \A i, j \in DOMAIN compareSchools :
         compareSchools[i] = compareSchools[j] => i = j
    /\ lastToggle # NoToggle =>
         LET b == lastToggle.before
             u == lastToggle.unitid
         IN  /\ u \in UnitidsOf(b) =>
                  /\ u \notin UnitidsOf(compareSchools)
                  /\ UnitidsOf(compareSchools) = UnitidsOf(b) \ { u }
             /\ u \notin UnitidsOf(b) /\ Len(b) < 2 => compareSchools = Append(b, u)
             /\ u \notin UnitidsOf(b) /\ Len(b) = 2 => compareSchools = << b[2], u >>

\* C21 witness: a third school was toggled on a full list; the oldest one is
\* gone and the new one is last.
C21_Witness ==
    /\ lastToggle # NoToggle
    /\ lastToggle.before = << 1, 2 >>
    /\ lastToggle.unitid = 3
    /\ compareSchools = << 2, 3 >>

\* C21: a school of the list is toggled and removed
C21_RemoveCase ==
    /\ lastToggle # NoToggle
    /\ lastToggle.before = << 1, 2 >>
    /\ lastToggle.unitid = 1
    /\ compareSchools = << 2 >>


\* C22: whenever the rate view of the Rankings page is active, the
\* Total / Rate toggle is rendered (hasRateData), so that the count view can
\* be selected again.
C22_RateViewHasToggle ==
    page = "rankings" /\ sortByRate => hasRateData

\* C22: the rate view was selected and the filters changed to a ranking
\* whose entries have no rate; the list is loaded, the rate view shows no
\* row, and the toggle is not rendered
C22_FailingCase ==
    /\ page = "rankings"
    /\ ~loading
    /\ sortByRate
    /\ rankings # << >>
    /\ \A i \in DOMAIN rankings : rankings[i].rate = NULL
    /\ ~hasRateData
    /\ displayedRankings = << >>


\* C23: a SchoolSearch requests the school index only on a user action (its
\* mount, or the opening of the header search): there are never more
\* requests than user actions, and an instance whose load attempt has ended
\* is not loading.
C23_LoadsOnlyOnUserAction ==
    /\ indexRequests <= srchActions
    /\ \A i \in SearchInstances :
         srch[i] # NoSearch /\ srch[i].pending = "none" => ~srch[i].loading

\* C23: the hero search was mounted and its request failed; without a user
\* action the load effect has requested the index again
C23_FailingCase ==
    /\ srch["hero"] # NoSearch
    /\ srch["header"] = NoSearch
    /\ srchActions = 1
    /\ indexRequests = 2
    /\ schoolIndexCache = NoIndex
    /\ srch["hero"].loading
    /\ srch["hero"].pending = "network"

\* C23: the index was loaded and lists no school; the hero search is loading
\* again, from the cache, and will be after every answer
C23_EmptyIndexCase ==
    /\ srch["hero"] # NoSearch
    /\ srch["header"] = NoSearch
    /\ srchActions = 1
    /\ indexRequests = 1
    /\ schoolIndexCache = 0
    /\ srch["hero"].loading
    /\ srch["hero"].pending = "cache"


\* the Compare page has settled: no effect is due
UrlSettled == urlDirty = { }

\* C24: whenever the Compare page has settled, the 'schools' parameter is
\* the selected ids joined by commas (absent for an empty selection) and the
\* selection is the first two valid ids of the opening URL as changed by the
\* add and remove calls; and the page always settles.
C24_SelectionAndUrlConverge ==
    /\ [](UrlSettled =>
            /\ urlSchools = IF selectedIds = << >> THEN NoParam ELSE Param(selectedIds)
            /\ selectedIds = urlExpected
            /\ Len(selectedIds) <= 2)
    /\ (~UrlSettled ~> UrlSettled)

\* C24 witness: the page was opened on schools=3,abc,1,2 and has settled on
\* the selection 3, 1 with the parameter 3,1.
C24_Witness ==
    /\ UrlSettled
    /\ urlOps = 0
    /\ urlExpected = << 3, 1 >>
    /\ selectedIds = << 3, 1 >>
    /\ urlSchools = Param(<< 3, 1 >>)

\* C24: opened on schools=1,2, a school removed and another added; settled
C24_AddRemoveCase ==
    /\ UrlSettled
    /\ urlOps = 2
    /\ selectedIds = << 2, 3 >>
    /\ urlSchools = Param(<< 2, 3 >>)

\* C24: opened on a parameter without a readable id; settled without
\* parameter
C24_InvalidCase ==
    /\ UrlSettled
    /\ urlOps = 1
    /\ selectedIds = << >>
    /\ urlSchools = NoParam
    /\ urlExpected = << >>


\* C25: between two clearCache calls each artifact key is requested at most
\* once, apart from the new request that follows a failed one, also when
\* several callers ask for the key before the first response has arrived.
C25_RequestedOncePerKey ==
    page = "api" =>
        \A k \in ApiKeys : apiRequests[k] <= 1 + apiFailures[k]

\* two callers asked for the school index before the first response arrived,
\* nothing failed, and two requests went out
C25_FailingCase ==
    /\ page = "api"
    /\ apiClears = 0
    /\ apiFailures["school-index.json"] = 0
    /\ apiCache["school-index.json"] = NoObject
    /\ apiPending["school-index.json"] = 2
    /\ apiRequests["school-index.json"] = 2

\* one caller after the other: the second call is answered from the cache
C25_SequentialCase ==
    /\ page = "api"
    /\ apiRequests["school-index.json"] = 1
    /\ apiPending["school-index.json"] = 0
    /\ apiLast = [kind |-> "return", key |-> "school-index.json", object |-> 1,
                  hit |-> TRUE, late |-> TRUE]

\* C26: once a call for a key has completed, every later call for the key
\* returns that same cached object without a request, until clearCache; a
\* failed fetch throws and leaves every cache as it was.
C26_SameCachedObject ==
    page = "api" /\ apiLast # NoEvent /\ apiLast.kind # "clear" =>
        /\ apiLast.kind = "return" /\ apiLast.late
              => apiLast.hit /\ apiLast.object = apiCompleted[apiLast.key]
        /\ apiLast.kind = "request" => ~apiLast.late
        /\ apiLast.kind = "throw" => apiCache = apiLast.cacheBefore

\* a call made after the first completed call returns another object: a
\* second request of the key, in flight since before, was answered in between
C26_FailingCase ==
    /\ page = "api"
    /\ apiLast # NoEvent
    /\ apiLast.kind = "return"
    /\ apiLast.hit
    /\ apiCompleted[apiLast.key] = 1
    /\ apiLast.object = 2

\* the failed fetch: the operation threw and a later call requested the key
\* again
C26_RetryCase ==
    /\ page = "api"
    /\ apiLast # NoEvent
    /\ apiLast.kind = "request"
    /\ apiFailures[apiLast.key] = 1
    /\ apiRequests[apiLast.key] = 2


\* C27: the mounted useTheme instances have the same theme value, and after
\* setTheme(v), toggleTheme or cycleTheme on any of them it is the value that
\* call set, whichever instances made the calls and in whichever order.
C27_InstancesAgree ==
    page = "theme" =>
        \A g \in Mounted :
            /\ \A h \in Mounted : hooks[g].theme = hooks[h].theme
            /\ lastSet # NoItem => hooks[g].theme = lastSet

\* C27 witness: App and a page are mounted in a browser that prefers dark,
\* 'light' was set, and both instances have it.
C27_Witness ==
    /\ page = "theme"
    /\ Mounted = HookNames
    /\ systemDark
    /\ lastSet = "light"
    /\ stored = "light"
    /\ hooks["App"].theme = "light"
    /\ hooks["Page"].theme = "light"

=============================================================================
